---- MODULE Spec2Model ----
(***************************************************************************)
(* A model of the PDF analysis tool: the text utilities of                 *)
(* src/utils/text.py (cleaning, normalisation, tokenisation, word          *)
(* frequencies, chunk splitting), the structure detection of               *)
(* src/pdf/extractor.py (titles and sections), the language-model wrapper  *)
(* of src/llm/model.py, the summarisation orchestrator of                  *)
(* src/llm/summarize.py and the summarisation step of src/main.py.         *)
(*                                                                         *)
(* A text is a sequence of one-character strings.  Pure functions of the   *)
(* program are operators; each is exercised by a specification whose Init  *)
(* draws the inputs from a bounded set and whose action applies it.        *)
(***************************************************************************)
EXTENDS Integers, Sequences, FiniteSets, TLC

VARIABLES
    pc,               \* position of the running operation
    text,             \* the input text (a sequence of characters)
    max_length,       \* split_into_chunks: the max_length argument
    chunks,           \* the list returned by split_into_chunks
    llm,              \* LLMModel: its fields model_name, tokenizer, model
    load_called,      \* history: load was called since construction or the last unload
    load_returned,    \* history: a load returned normally since then
    calls,            \* history: the calls made on the LLMModel and how each ended
    generations,      \* history: number of times the loaded model ran a generation
    deterministic,    \* summarize: the deterministic argument
    max_summary_length, \* summarize: the max_summary_length argument
    i,                \* summarize: index of the next chunk of the loop
    chunk_summaries,  \* summarize: the summaries of the chunks so far
    requests,         \* history: the generate_text calls summarize has made
    responses,        \* history: how each of those calls ended
    summary,          \* the value summarize returned
    exit_status,      \* the value main returned
    keep_numbers,     \* tokenize: the keep_numbers argument
    advanced_clean,   \* tokenize: the advanced_clean argument
    tokens,           \* the list tokenize(text) returned
    retokens,         \* the list tokenize returned for the tokens joined by spaces
    word_count,       \* the value count_words(text) returned
    vocabulary_size,  \* the value get_vocabulary_size(text) returned
    top_n,            \* get_most_common_words: the n argument
    remove_stopwords, \* get_most_common_words: the remove_stopwords argument
    most_common,      \* the list get_most_common_words returned
    clean_advanced,   \* clean_text: the advanced argument
    cleaned,          \* the value clean_text(text) returned
    doc,              \* PDFExtractor: the pages of the open document
    page_num,         \* detect_titles: the index of the page of the loop
    titles,           \* detect_titles: the list of titles so far
    sections,         \* the list detect_sections returned
    byte_size,        \* format_bytes: the size argument
    formatted,        \* the string format_bytes returned
    args,             \* main: the parsed command line and the state of the input file
    caller,           \* extract_text: the function that called it
    text_parts,       \* extract_text: the parts appended so far
    extracted,        \* the string the last extract_text call returned
    total_words,      \* count_words_from_pdf: the running total
    keywords,         \* the list extract_keywords returned
    analysis,         \* the dictionary analyze returned (NoAnalysis before)
    raised,           \* the kind of the exception in flight ("None" when none)
    memory_error      \* history: a page access has raised MemoryError

chunkVars == <<max_length, chunks>>
llmVars == <<llm, load_called, load_returned, calls, generations>>
sumVars == <<deterministic, max_summary_length, i, chunk_summaries, requests, responses,
             summary, exit_status>>
tokVars == <<keep_numbers, advanced_clean, tokens, retokens, word_count>>
freqVars == <<vocabulary_size, top_n, remove_stopwords, most_common>>
cleanVars == <<clean_advanced, cleaned>>
docVars == <<doc, page_num, titles, sections>>
fmtVars == <<byte_size, formatted>>
anaVars == <<args, caller, text_parts, extracted, total_words, keywords, analysis, raised,
             memory_error>>
vars == <<pc, text, max_length, chunks, llm, load_called, load_returned, calls, generations,
          deterministic, max_summary_length, i, chunk_summaries, requests, responses,
          summary, exit_status, keep_numbers, advanced_clean, tokens, retokens, word_count,
          vocabulary_size, top_n, remove_stopwords, most_common, clean_advanced, cleaned,
          doc, page_num, titles, sections, byte_size, formatted,
          args, caller, text_parts, extracted, total_words, keywords, analysis, raised,
          memory_error>>

(***************************************************************************)
(* Bounds of the model.                                                    *)
(***************************************************************************)
MaxTextLen == 7
MaxChunkLen == 4
MaxCalls == 4
MaxWords == 7
MaxTokLen == 4

(***************************************************************************)
(* Strings.                                                                *)
(***************************************************************************)
\* The characters str.split() with no argument splits on.
IsSpace(c) == c \in {" ", "\n", "\t"}

Min(a, b) == IF a <= b THEN a ELSE b

\* All sequences over S of length at most n.
SeqsUpTo(S, n) == UNION {[1..k -> S] : k \in 0..n}

\* The elements of a finite set of integers in increasing order.
RECURSIVE SortedSeq(_)
SortedSeq(S) ==
    IF S = {} THEN <<>>
    ELSE LET m == CHOOSE x \in S : \A y \in S : x <= y
         IN  <<m>> \o SortedSeq(S \ {m})

\* text.split(): the maximal runs of non-whitespace characters, in order.
split(t) ==
    LET n      == Len(t)
        starts == SortedSeq({p \in 1..n : ~IsSpace(t[p]) /\ (p = 1 \/ IsSpace(t[p - 1]))})
        ends   == SortedSeq({p \in 1..n : ~IsSpace(t[p]) /\ (p = n \/ IsSpace(t[p + 1]))})
    IN  [k \in 1..Len(starts) |-> SubSeq(t, starts[k], ends[k])]

\* ' '.join(words)
RECURSIVE join(_)
join(words) ==
    IF words = <<>> THEN <<>>
    ELSE IF Len(words) = 1 THEN words[1]
    ELSE words[1] \o <<" ">> \o join(Tail(words))

(***************************************************************************)
(* split_into_chunks (src/utils/text.py).                                  *)
(***************************************************************************)
\* A seeded fault: the joining space is not counted.
word_length_unpadded(word) == Len(word)

\* word_length = len(word) + 1
word_length(word) == Len(word) + 1

\* A seeded fault: the word that triggers a flush is dropped.
ChunkStepDropping(st, word, maxlen) ==
    IF st.current_length + word_length(word) > maxlen /\ st.current_chunk # <<>>
    THEN [chunks         |-> Append(st.chunks, join(st.current_chunk)),
          current_chunk  |-> <<>>,
          current_length |-> 0]
    ELSE [chunks         |-> st.chunks,
          current_chunk  |-> Append(st.current_chunk, word),
          current_length |-> st.current_length + word_length(word)]

\* A seeded fault: the chunk is flushed as soon as the bound is reached.
ChunkStepEager(st, word, maxlen) ==
    IF st.current_length + word_length(word) >= maxlen /\ st.current_chunk # <<>>
    THEN [chunks         |-> Append(st.chunks, join(st.current_chunk)),
          current_chunk  |-> <<word>>,
          current_length |-> word_length(word)]
    ELSE [chunks         |-> st.chunks,
          current_chunk  |-> Append(st.current_chunk, word),
          current_length |-> st.current_length + word_length(word)]

\* One iteration of the loop over the words.
ChunkStep(st, word, maxlen) ==
    IF st.current_length + word_length(word) > maxlen /\ st.current_chunk # <<>>
    THEN [chunks         |-> Append(st.chunks, join(st.current_chunk)),
          current_chunk  |-> <<word>>,
          current_length |-> word_length(word)]
    ELSE [chunks         |-> st.chunks,
          current_chunk  |-> Append(st.current_chunk, word),
          current_length |-> st.current_length + word_length(word)]

RECURSIVE ChunkLoop(_, _, _, _)
ChunkLoop(st, words, k, maxlen) ==
    IF k > Len(words) THEN st
    ELSE ChunkLoop(ChunkStep(st, words[k], maxlen), words, k + 1, maxlen)

split_into_chunks(t, maxlen) ==
    LET st == ChunkLoop([chunks |-> <<>>, current_chunk |-> <<>>, current_length |-> 0],
                        split(t), 1, maxlen)
    IN  IF st.current_chunk # <<>>
        THEN Append(st.chunks, join(st.current_chunk))
        ELSE st.chunks

(***************************************************************************)
(* LLMModel (src/llm/model.py).  The pretrained-model runtime is external: *)
(* each of its calls either returns or raises.  A loaded tokenizer or      *)
(* model is represented by the name it was loaded from, None by "None".    *)
(***************************************************************************)
DefaultModelName == "unicamp-dl/ptt5-base-portuguese-vocab"
FallbackModelName == "google/flan-t5-small"

\* The texts the external model may produce.
ModelOutputs == {<<"x">>, <<"y", "z">>}

\* LLMModel.__init__
LLMModel(name) == [model_name |-> name, tokenizer |-> "None", model |-> "None"]

\* The three runtime calls of one loading attempt: the tokenizer is fetched, the
\* model is fetched, the model is moved to the device.  Any of them may raise.
LoadAttempt(m) ==
    LET t  == [m EXCEPT !.tokenizer = m.model_name]
        tm == [t EXCEPT !.model = m.model_name]
    IN  { [llm |-> m,  raised |-> TRUE],
          [llm |-> t,  raised |-> TRUE],
          [llm |-> tm, raised |-> TRUE],
          [llm |-> tm, raised |-> FALSE] }

\* LLMModel.load: the outcomes of the attempt with the configured model and,
\* when that raised, of the attempt with the fallback model.
load(m) ==
    LET first == LoadAttempt(m)
    IN  {r \in first : ~r.raised}
        \cup UNION { LoadAttempt([r.llm EXCEPT !.model_name = FallbackModelName]) :
                     r \in {q \in first : q.raised} }

\* A seeded fault: the guard of generate_text is missing.
generate_text_unguarded(m) ==
    { [result |-> "failed", invoked |-> FALSE, text |-> <<>>],
      [result |-> "failed", invoked |-> TRUE, text |-> <<>>] }
    \cup { [result |-> "ok", invoked |-> TRUE, text |-> s] : s \in ModelOutputs }

\* LLMModel.generate_text: raises the not-loaded error unless both the model
\* and the tokenizer are set; otherwise tokenizes the prompt, runs the
\* generation and decodes, each of which may raise.
generate_text(m) ==
    IF m.model = "None" \/ m.tokenizer = "None"
    THEN { [result |-> "not_loaded", invoked |-> FALSE, text |-> <<>>] }
    ELSE { [result |-> "failed", invoked |-> FALSE, text |-> <<>>],
           [result |-> "failed", invoked |-> TRUE, text |-> <<>>] }
         \cup { [result |-> "ok", invoked |-> TRUE, text |-> s] : s \in ModelOutputs }

\* A seeded fault: unload releases the model but keeps the fields set.
unload_keeping(m) == m

\* LLMModel.unload
unload(m) == [m EXCEPT !.model = "None", !.tokenizer = "None"]

TokIdle ==
    /\ keep_numbers = FALSE
    /\ advanced_clean = FALSE
    /\ tokens = <<>>
    /\ retokens = <<>>
    /\ word_count = 0

FreqIdle ==
    /\ vocabulary_size = 0
    /\ top_n = 0
    /\ remove_stopwords = FALSE
    /\ most_common = <<>>

CleanIdle ==
    /\ clean_advanced = FALSE
    /\ cleaned = <<>>

DocIdle ==
    /\ doc = <<>>
    /\ page_num = 0
    /\ titles = <<>>
    /\ sections = <<>>

FmtIdle ==
    /\ byte_size = 0
    /\ formatted = <<>>

\* The value of analysis before analyze has built its dictionary.
NoAnalysis == [none |-> TRUE]

AnaIdle ==
    /\ args = "None"
    /\ caller = "None"
    /\ text_parts = <<>>
    /\ extracted = <<>>
    /\ total_words = 0
    /\ keywords = <<>>
    /\ analysis = NoAnalysis
    /\ raised = "None"
    /\ memory_error = FALSE

SumIdle ==
    /\ deterministic = FALSE
    /\ max_summary_length = 0
    /\ i = 0
    /\ chunk_summaries = <<>>
    /\ requests = <<>>
    /\ responses = <<>>
    /\ summary = "None"
    /\ exit_status = "None"

LlmIdle ==
    /\ llm = LLMModel(DefaultModelName)
    /\ load_called = FALSE
    /\ load_returned = FALSE
    /\ calls = <<>>
    /\ generations = 0

(***************************************************************************)
(* The specification of LLMModel: any sequence of at most MaxCalls calls   *)
(* of load, generate_text and unload on one object.                        *)
(***************************************************************************)
ModelInit ==
    /\ pc = "llm"
    /\ text = <<>>
    /\ max_length = 0
    /\ chunks = <<>>
    /\ LlmIdle
    /\ TokIdle
    /\ FreqIdle
    /\ CleanIdle
    /\ DocIdle
    /\ FmtIdle
    /\ AnaIdle
    /\ SumIdle

CallEntry(op, result) ==
    [op |-> op, result |-> result,
     load_called |-> load_called, load_returned |-> load_returned]

Load ==
    /\ pc = "llm"
    /\ Len(calls) < MaxCalls
    /\ \E r \in load(llm) :
          /\ llm' = r.llm
          /\ load_returned' = (load_returned \/ ~r.raised)
          /\ calls' = Append(calls, CallEntry("load", IF r.raised THEN "failed" ELSE "ok"))
    /\ load_called' = TRUE
    /\ UNCHANGED <<pc, text, generations>>
    /\ UNCHANGED tokVars
    /\ UNCHANGED <<freqVars, cleanVars, docVars, fmtVars, anaVars>>
    /\ UNCHANGED chunkVars
    /\ UNCHANGED sumVars

GenerateText ==
    /\ pc = "llm"
    /\ Len(calls) < MaxCalls
    /\ \E r \in generate_text(llm) :
          /\ generations' = generations + (IF r.invoked THEN 1 ELSE 0)
          /\ calls' = Append(calls, CallEntry("generate_text", r.result)
                                     @@ [generations_before |-> generations,
                                         generations_after |-> generations'])
    /\ UNCHANGED <<pc, text, llm, load_called, load_returned>>
    /\ UNCHANGED tokVars
    /\ UNCHANGED <<freqVars, cleanVars, docVars, fmtVars, anaVars>>
    /\ UNCHANGED chunkVars
    /\ UNCHANGED sumVars

Unload ==
    /\ pc = "llm"
    /\ Len(calls) < MaxCalls
    /\ llm' = unload(llm)
    /\ load_called' = FALSE
    /\ load_returned' = FALSE
    /\ calls' = Append(calls, CallEntry("unload", "ok"))
    /\ UNCHANGED <<pc, text, generations>>
    /\ UNCHANGED tokVars
    /\ UNCHANGED <<freqVars, cleanVars, docVars, fmtVars, anaVars>>
    /\ UNCHANGED chunkVars
    /\ UNCHANGED sumVars

ModelNext == Load \/ GenerateText \/ Unload

SpecModel == ModelInit /\ [][ModelNext]_vars

\* C8: generate_text called with no load since construction or the last unload
\* raises the not-loaded error and runs no generation; generate_text called
\* after a load returned normally, with no unload since, never raises it.
NotLoadedContract ==
    \A j \in 1..Len(calls) :
        calls[j].op = "generate_text" =>
            /\ ~calls[j].load_called =>
                  /\ calls[j].result = "not_loaded"
                  /\ calls[j].generations_after = calls[j].generations_before
            /\ calls[j].load_returned => calls[j].result # "not_loaded"

\* A generate_text after an unload that followed a successful load, and a
\* generate_text served by the loaded model.
NotLoadedContractWitness ==
    /\ \E j \in 1..Len(calls) :
          /\ calls[j].op = "generate_text" /\ calls[j].load_returned
          /\ calls[j].result = "ok"
    /\ \E j \in 2..Len(calls) :
          /\ calls[j].op = "generate_text" /\ calls[j - 1].op = "unload"
          /\ calls[j - 1].load_returned
          /\ calls[j].result = "not_loaded"

(***************************************************************************)
(* The specification of split_into_chunks: any text over ChunkAlphabet of  *)
(* at most MaxTextLen characters, any max_length in 0..MaxChunkLen.        *)
(***************************************************************************)
ChunkAlphabet == {"a", "b", " "}

ChunkInit ==
    /\ pc = "split_call"
    /\ text \in SeqsUpTo(ChunkAlphabet, MaxTextLen)
    /\ max_length \in 0..MaxChunkLen
    /\ chunks = <<>>
    /\ LlmIdle
    /\ TokIdle
    /\ FreqIdle
    /\ CleanIdle
    /\ DocIdle
    /\ FmtIdle
    /\ AnaIdle
    /\ SumIdle

SplitIntoChunks ==
    /\ pc = "split_call"
    /\ chunks' = split_into_chunks(text, max_length)
    /\ pc' = "split_done"
    /\ UNCHANGED <<text, max_length>>
    /\ UNCHANGED tokVars
    /\ UNCHANGED <<freqVars, cleanVars, docVars, fmtVars, anaVars>>
    /\ UNCHANGED llmVars
    /\ UNCHANGED sumVars

ChunkNext == SplitIntoChunks

SpecChunks == ChunkInit /\ [][ChunkNext]_vars

\* C1: every chunk returned by split_into_chunks(text, max_length) has at most
\* max_length characters, unless it is one single word that is itself longer
\* than max_length.
ChunkBound ==
    pc = "split_done" =>
        \A j \in 1..Len(chunks) :
            \/ Len(chunks[j]) <= max_length
            \/ /\ Len(split(chunks[j])) = 1
               /\ split(chunks[j])[1] = chunks[j]

\* An oversized single-word chunk next to a chunk within the bound.
ChunkBoundWitness ==
    /\ pc = "split_done"
    /\ \E j \in 1..Len(chunks) : Len(chunks[j]) > max_length
    /\ \E j \in 1..Len(chunks) : Len(chunks[j]) <= max_length

\* C2: the chunks joined by single spaces are the words of the text joined by
\* single spaces.
ChunkReconstruction ==
    pc = "split_done" => join(chunks) = join(split(text))

\* Several chunks, one of them of two words, from a text with a doubled space.
ChunkReconstructionWitness ==
    /\ pc = "split_done"
    /\ Len(chunks) >= 2
    /\ \E j \in 1..Len(chunks) : Len(split(chunks[j])) = 2
    /\ \E p \in 1..(Len(text) - 1) : text[p] = " " /\ text[p + 1] = " "

(***************************************************************************)
(* Summarizer (src/llm/summarize.py) and the summarisation step of main    *)
(* (src/main.py).  A request is the generate_text call as the model sees   *)
(* it: the prompt (the fixed template of its kind followed by body) and    *)
(* the keyword arguments.                                                  *)
(***************************************************************************)
LongTextThreshold == 3000
ChunkMaxLength == 1000
MaxChunks == 5
ChunkSummaryMax == 200
ChunkSummaryMin == 30
ConsolidationMin == 100
DirectMin == 50
DirectPrefix == 2000
DefaultMaxSummaryLength == 500

\* s[:n]
Take(s, n) == SubSeq(s, 1, Min(n, Len(s)))

\* A seeded fault: the threshold test is inclusive.
is_long_text_inclusive(t) == Len(t) >= LongTextThreshold

\* len(text) > 3000
is_long_text(t) == Len(t) > LongTextThreshold

\* A seeded fault: the chunk call asks for the bounds of the direct call.
chunk_request_direct_bounds(chunk, det) ==
    [kind |-> "chunk", body |-> chunk,
     max_length |-> DefaultMaxSummaryLength, min_length |-> DirectMin,
     deterministic |-> det]

\* The call of generate_text for one chunk.
chunk_request(chunk, det) ==
    [kind |-> "chunk", body |-> chunk,
     max_length |-> ChunkSummaryMax, min_length |-> ChunkSummaryMin,
     deterministic |-> det]

\* A seeded fault: the summaries are concatenated without the separator.
RECURSIVE concat(_)
concat(words) == IF words = <<>> THEN <<>> ELSE words[1] \o concat(Tail(words))

consolidation_request_unspaced(summaries, msl, det) ==
    [kind |-> "consolidation", body |-> concat(summaries),
     max_length |-> msl, min_length |-> ConsolidationMin,
     deterministic |-> det]

\* A seeded fault: the consolidation call does not forward the flag.
consolidation_request_sampling(summaries, msl, det) ==
    [kind |-> "consolidation", body |-> join(summaries),
     max_length |-> msl, min_length |-> ConsolidationMin,
     deterministic |-> FALSE]

\* The call of generate_text over the combined chunk summaries.
consolidation_request(summaries, msl, det) ==
    [kind |-> "consolidation", body |-> join(summaries),
     max_length |-> msl, min_length |-> ConsolidationMin,
     deterministic |-> det]

\* A seeded fault: the whole text is embedded in the prompt.
direct_request_whole(t, msl, det) ==
    [kind |-> "direct", body |-> t,
     max_length |-> msl, min_length |-> DirectMin,
     deterministic |-> det]

\* The call of generate_text for a short text.
direct_request(t, msl, det) ==
    [kind |-> "direct", body |-> Take(t, DirectPrefix),
     max_length |-> msl, min_length |-> DirectMin,
     deterministic |-> det]

(***************************************************************************)
(* The texts summarised: n words of L characters each, word j made of the  *)
(* j-th letter, joined by single spaces and followed by pad spaces; a long *)
(* run of spaces follows no word or one word.                              *)
(***************************************************************************)
Letters == <<"a", "b", "c", "d", "e", "f", "g", "h", "i">>
WordLens == {499, 600, 1000}
PadLens == {0, 1}
LongPad == 3001
SummaryLengths == {DefaultMaxSummaryLength}

GenWord(j, L) == [p \in 1..L |-> Letters[((j - 1) % Len(Letters)) + 1]]
GenText(n, L, pad) == join([j \in 1..n |-> GenWord(j, L)]) \o [p \in 1..pad |-> " "]
SumTexts ==
    {GenText(n, L, pad) : n \in 0..MaxWords, L \in WordLens, pad \in PadLens}
    \cup {GenText(n, L, LongPad) : n \in 0..1, L \in WordLens}

\* main has reached step 3 with analysis['full_text'] = text.
SumInit ==
    /\ pc = "run_summarization"
    /\ text \in SumTexts
    /\ deterministic \in BOOLEAN
    /\ max_summary_length \in SummaryLengths
    /\ max_length = 0
    /\ chunks = <<>>
    /\ i = 0
    /\ chunk_summaries = <<>>
    /\ requests = <<>>
    /\ responses = <<>>
    /\ summary = "None"
    /\ exit_status = "None"
    /\ LlmIdle
    /\ TokIdle
    /\ FreqIdle
    /\ CleanIdle
    /\ DocIdle
    /\ FmtIdle
    /\ AnaIdle

\* Summarizer.__init__: builds the LLMModel and loads it.
SummarizerInit ==
    /\ pc = "run_summarization"
    /\ \E r \in load(LLMModel(DefaultModelName)) :
          /\ llm' = r.llm
          /\ load_returned' = ~r.raised
          /\ calls' = Append(calls, CallEntry("load", IF r.raised THEN "failed" ELSE "ok"))
          /\ pc' = IF r.raised THEN "propagate" ELSE "summarize"
    /\ load_called' = TRUE
    /\ UNCHANGED <<text, generations>>
    /\ UNCHANGED tokVars
    /\ UNCHANGED <<freqVars, cleanVars, docVars, fmtVars, anaVars>>
    /\ UNCHANGED chunkVars
    /\ UNCHANGED sumVars

\* summarize: the branch on the length of the text.
SummarizeBegin ==
    /\ pc = "summarize"
    /\ IF is_long_text(text)
       THEN /\ chunks' = split_into_chunks(text, ChunkMaxLength)
            /\ pc' = "chunk_loop"
       ELSE /\ chunks' = chunks
            /\ pc' = "direct"
    /\ i' = 0
    /\ chunk_summaries' = <<>>
    /\ UNCHANGED <<text, max_length>>
    /\ UNCHANGED tokVars
    /\ UNCHANGED <<freqVars, cleanVars, docVars, fmtVars, anaVars>>
    /\ UNCHANGED llmVars
    /\ UNCHANGED <<deterministic, max_summary_length, requests, responses, summary, exit_status>>

\* The loop over chunks[:5]: the call for the next chunk.
ChunkRequest ==
    /\ pc = "chunk_loop"
    /\ i < Len(Take(chunks, MaxChunks))
    /\ requests' = Append(requests, chunk_request(Take(chunks, MaxChunks)[i + 1], deterministic))
    /\ pc' = "chunk_wait"
    /\ UNCHANGED <<text, max_length, chunks>>
    /\ UNCHANGED tokVars
    /\ UNCHANGED <<freqVars, cleanVars, docVars, fmtVars, anaVars>>
    /\ UNCHANGED llmVars
    /\ UNCHANGED <<deterministic, max_summary_length, i, chunk_summaries, responses,
                   summary, exit_status>>

\* A seeded fault: a failed chunk is skipped and the loop goes on.
ChunkResponseSkipping ==
    /\ pc = "chunk_wait"
    /\ \E r \in generate_text(llm) :
          /\ responses' = Append(responses, r)
          /\ generations' = generations + (IF r.invoked THEN 1 ELSE 0)
          /\ calls' = Append(calls, CallEntry("generate_text", r.result)
                                     @@ [generations_before |-> generations,
                                         generations_after |-> generations'])
          /\ chunk_summaries' = IF r.result = "ok" THEN Append(chunk_summaries, r.text)
                                ELSE chunk_summaries
          /\ i' = i + 1
          /\ pc' = "chunk_loop"
    /\ UNCHANGED <<text, max_length, chunks, llm, load_called, load_returned>>
    /\ UNCHANGED tokVars
    /\ UNCHANGED <<freqVars, cleanVars, docVars, fmtVars, anaVars>>
    /\ UNCHANGED <<deterministic, max_summary_length, requests, summary, exit_status>>

\* The call for a chunk returns its summary, or raises.
ChunkResponse ==
    /\ pc = "chunk_wait"
    /\ \E r \in generate_text(llm) :
          /\ responses' = Append(responses, r)
          /\ generations' = generations + (IF r.invoked THEN 1 ELSE 0)
          /\ calls' = Append(calls, CallEntry("generate_text", r.result)
                                     @@ [generations_before |-> generations,
                                         generations_after |-> generations'])
          /\ IF r.result = "ok"
             THEN /\ chunk_summaries' = Append(chunk_summaries, r.text)
                  /\ i' = i + 1
                  /\ pc' = "chunk_loop"
             ELSE /\ UNCHANGED <<chunk_summaries, i>>
                  /\ pc' = "propagate"
    /\ UNCHANGED <<text, max_length, chunks, llm, load_called, load_returned>>
    /\ UNCHANGED tokVars
    /\ UNCHANGED <<freqVars, cleanVars, docVars, fmtVars, anaVars>>
    /\ UNCHANGED <<deterministic, max_summary_length, requests, summary, exit_status>>

\* After the loop: the call over the combined summaries.
ConsolidationRequest ==
    /\ pc = "chunk_loop"
    /\ i >= Len(Take(chunks, MaxChunks))
    /\ requests' = Append(requests,
                          consolidation_request(chunk_summaries, max_summary_length,
                                                deterministic))
    /\ pc' = "final_wait"
    /\ UNCHANGED <<text, max_length, chunks>>
    /\ UNCHANGED tokVars
    /\ UNCHANGED <<freqVars, cleanVars, docVars, fmtVars, anaVars>>
    /\ UNCHANGED llmVars
    /\ UNCHANGED <<deterministic, max_summary_length, i, chunk_summaries, responses,
                   summary, exit_status>>

\* The short text: the single call over its first characters.
DirectRequest ==
    /\ pc = "direct"
    /\ requests' = Append(requests, direct_request(text, max_summary_length, deterministic))
    /\ pc' = "final_wait"
    /\ UNCHANGED <<text, max_length, chunks>>
    /\ UNCHANGED tokVars
    /\ UNCHANGED <<freqVars, cleanVars, docVars, fmtVars, anaVars>>
    /\ UNCHANGED llmVars
    /\ UNCHANGED <<deterministic, max_summary_length, i, chunk_summaries, responses,
                   summary, exit_status>>

\* The last call returns final_summary, which summarize returns, or raises.
FinalResponse ==
    /\ pc = "final_wait"
    /\ \E r \in generate_text(llm) :
          /\ responses' = Append(responses, r)
          /\ generations' = generations + (IF r.invoked THEN 1 ELSE 0)
          /\ calls' = Append(calls, CallEntry("generate_text", r.result)
                                     @@ [generations_before |-> generations,
                                         generations_after |-> generations'])
          /\ IF r.result = "ok"
             THEN /\ summary' = r.text
                  /\ pc' = "cleanup"
             ELSE /\ summary' = summary
                  /\ pc' = "propagate"
    /\ UNCHANGED <<text, max_length, chunks, llm, load_called, load_returned>>
    /\ UNCHANGED tokVars
    /\ UNCHANGED <<freqVars, cleanVars, docVars, fmtVars, anaVars>>
    /\ UNCHANGED <<deterministic, max_summary_length, i, chunk_summaries, requests,
                   exit_status>>

\* _run_summarization after summarize returned: summarizer.cleanup().
Cleanup ==
    /\ pc = "cleanup"
    /\ llm' = unload(llm)
    /\ load_called' = FALSE
    /\ load_returned' = FALSE
    /\ calls' = Append(calls, CallEntry("unload", "ok"))
    /\ pc' = "report"
    /\ UNCHANGED <<text, generations>>
    /\ UNCHANGED tokVars
    /\ UNCHANGED <<freqVars, cleanVars, docVars, fmtVars, anaVars>>
    /\ UNCHANGED chunkVars
    /\ UNCHANGED sumVars

\* main, step 4: the report is written and main returns 0, or the write raises.
Report ==
    /\ pc = "report"
    /\ \E written \in BOOLEAN :
          IF written
          THEN /\ exit_status' = 0
               /\ pc' = "exit"
          ELSE /\ exit_status' = exit_status
               /\ pc' = "propagate"
    /\ UNCHANGED <<text, max_length, chunks>>
    /\ UNCHANGED tokVars
    /\ UNCHANGED <<freqVars, cleanVars, docVars, fmtVars, anaVars>>
    /\ UNCHANGED llmVars
    /\ UNCHANGED <<deterministic, max_summary_length, i, chunk_summaries, requests,
                   responses, summary>>

\* main: an exception raised in any step reaches the handlers, which return 1.
HandleException ==
    /\ pc = "propagate"
    /\ exit_status' = 1
    /\ pc' = "exit"
    /\ UNCHANGED <<text, max_length, chunks>>
    /\ UNCHANGED tokVars
    /\ UNCHANGED <<freqVars, cleanVars, docVars, fmtVars, anaVars>>
    /\ UNCHANGED llmVars
    /\ UNCHANGED <<deterministic, max_summary_length, i, chunk_summaries, requests,
                   responses, summary>>

SumNext ==
    \/ SummarizerInit
    \/ SummarizeBegin
    \/ ChunkRequest
    \/ ChunkResponse
    \/ ConsolidationRequest
    \/ DirectRequest
    \/ FinalResponse
    \/ Cleanup
    \/ Report
    \/ HandleException

SpecSummarize == SumInit /\ [][SumNext]_vars

(***************************************************************************)
(* Properties of the summarisation step.                                   *)
(***************************************************************************)
IsPrefix(a, b) == Len(a) <= Len(b) /\ a = SubSeq(b, 1, Len(a))

\* What the model saw of each request: its kind and, for a chunk, the chunk.
Issued ==
    [j \in 1..Len(requests) |->
        IF requests[j].kind = "chunk" THEN <<"chunk", requests[j].body>>
        ELSE <<requests[j].kind>>]

\* The requests the claim prescribes for a text.
Prescribed(t) ==
    IF Len(t) > 3000
    THEN LET cs == split_into_chunks(t, 1000)
             m  == IF Len(cs) < 5 THEN Len(cs) ELSE 5
         IN  [j \in 1..m |-> <<"chunk", cs[j]>>] \o << <<"consolidation">> >>
    ELSE << <<"direct">> >>

\* C3: summarize takes the map-reduce path iff len(text) > 3000; there it
\* issues one request for each of the first min(5, k) chunks, in order, then
\* exactly one consolidation request; otherwise it issues exactly one direct
\* request.  Whenever a request has just been issued, the requests so far
\* begin the prescribed ones; when summarize has just returned, they are
\* exactly the prescribed ones.
RequestPlan ==
    /\ \A j \in 1..Len(requests) : requests[j].kind = "direct" <=> Len(text) <= 3000
    /\ pc \in {"chunk_wait", "final_wait"} => IsPrefix(Issued, Prescribed(text))
    /\ pc = "cleanup" => Issued = Prescribed(text)

\* summarize returned on the direct path with a text of exactly 3000
\* characters, or on the map-reduce path with more than five chunks, or with
\* fewer than five.
RequestPlanWitnessDirect ==
    /\ summary # "None" /\ Len(text) = 3000 /\ Len(requests) = 1

RequestPlanWitness ==
    /\ summary # "None"
    /\ Len(text) > 3000
    /\ Len(split_into_chunks(text, 1000)) > 5
    /\ Len(requests) = 6

\* C4: on the map-reduce path at most one request is outstanding, request j is
\* for chunk j and is issued when the j-1 requests before it have returned,
\* and the consolidation prompt holds the summaries the chunk requests
\* returned, in chunk order, joined by single spaces.
SequentialRequests ==
    /\ Len(requests) - Len(responses) \in {0, 1}
    /\ \A j \in 1..Len(requests) :
          /\ requests[j].kind = "chunk" =>
                /\ requests[j].body = chunks[j]
                /\ \A h \in 1..(j - 1) : requests[h].kind = "chunk"
          /\ requests[j].kind = "consolidation" =>
                /\ j = Len(requests)
                /\ Len(responses) >= j - 1
                /\ \A h \in 1..(j - 1) :
                      requests[h].kind = "chunk" /\ responses[h].result = "ok"
                /\ requests[j].body = join([h \in 1..(j - 1) |-> responses[h].text])

\* A consolidation request over several summaries that are not all the same.
SequentialRequestsWitness ==
    /\ Len(requests) >= 4
    /\ requests[Len(requests)].kind = "consolidation"
    /\ responses[1].text # responses[2].text
    /\ chunks[1] # chunks[2]

\* C5: when the summarisation step is over and the Summarizer had loaded its
\* model, the model has been unloaded.
ModelReleasedOnExit ==
    (pc = "exit" /\ \E j \in 1..Len(calls) : calls[j].op = "load" /\ calls[j].result = "ok")
        => \E j \in 1..Len(calls) : calls[j].op = "unload"

\* C6: a failed model invocation is the last request summarize issues, makes
\* summarize return nothing, and makes main return 1.
NoRequestAfterFailure ==
    \A j \in 1..Len(responses) :
        responses[j].result # "ok" =>
            /\ j = Len(requests)
            /\ summary = "None"
            /\ pc \in {"propagate", "exit"}
            /\ pc = "exit" => exit_status = 1

\* The second chunk request of several failed and the run has ended.
NoRequestAfterFailureWitness ==
    /\ pc = "exit"
    /\ Len(responses) = 2
    /\ responses[2].result = "failed"
    /\ Len(chunks) > 2

\* C7: every request of one summarize call carries the deterministic flag the
\* call was given.
FlagForwarded ==
    \A j \in 1..Len(requests) : requests[j].deterministic = deterministic

\* A completed map-reduce run, and a completed direct run, with the flag set.
FlagForwardedWitness ==
    /\ deterministic
    /\ summary # "None"
    /\ Len(requests) >= 3

FlagForwardedWitnessDirect ==
    /\ deterministic
    /\ summary # "None"
    /\ requests[1].kind = "direct"

(***************************************************************************)
(* Normalisation and tokenisation (src/utils/text.py).                     *)
(*                                                                         *)
(* The characters of these texts stand for Unicode characters by name:     *)
(*   "a" "b" "e" "g" "i" "l" "n" "o" "p" "r"   lowercase ASCII letters     *)
(*   "B" "E"                  uppercase ASCII letters                      *)
(*   "e_acute" "E_acute" "a_acute"   U+00E9, U+00C9, U+00E1: accented      *)
(*                            letters that NFKD decomposes into the base   *)
(*                            letter and "acute"                           *)
(*   "o_slash" "O_slash"      U+00F8, U+00D8: accented-range letters with  *)
(*                            no decomposition                             *)
(*   "acute"                  U+0301, the combining acute accent           *)
(*   "0" .. "9"               the digits                                   *)
(*   "-" "_" " " "\n"         hyphen, underscore, space, line break        *)
(***************************************************************************)
AsciiLetters == {"a", "b", "e", "g", "i", "l", "n", "o", "p", "r", "B", "E"}
AccentedLetters == {"e_acute", "E_acute", "a_acute", "o_slash", "O_slash"}
Digits == {"0", "1", "2", "3", "4", "5", "6", "7", "8", "9"}

\* unicodedata.normalize('NFKD', c) for one character.
nfkd_char(c) ==
    CASE c = "e_acute" -> <<"e", "acute">>
      [] c = "E_acute" -> <<"E", "acute">>
      [] c = "a_acute" -> <<"a", "acute">>
      [] OTHER -> <<c>>

\* normalize_unicode
RECURSIVE normalize_unicode(_)
normalize_unicode(t) ==
    IF t = <<>> THEN <<>> ELSE nfkd_char(t[1]) \o normalize_unicode(Tail(t))

\* The regular expression classes \w and \s.
IsWordChar(c) == c \in AsciiLetters \cup AccentedLetters \cup Digits \cup {"_"}
IsReSpace(c) == c \in {" ", "\n", "\t"}

\* The last position of the maximal run of characters satisfying the class
\* that starts at position p (p - 1 when t[p] is not in the class).
RECURSIVE WordRunEnd(_, _)
WordRunEnd(t, p) ==
    IF p <= Len(t) /\ IsWordChar(t[p]) THEN WordRunEnd(t, p + 1) ELSE p - 1

RECURSIVE SpaceRunEnd(_, _)
SpaceRunEnd(t, p) ==
    IF p <= Len(t) /\ IsReSpace(t[p]) THEN SpaceRunEnd(t, p + 1) ELSE p - 1

\* remove_line_breaks_hyphens: re.sub(r'(\w+)-\s*\n\s*(\w+)', r'\1\2', text),
\* scanning from position p.  A match at p is a run of word characters up to
\* j, a hyphen, a run of whitespace up to k that holds a line break, and a
\* run of word characters up to m; the scan resumes after the match.
RECURSIVE HyphenScan(_, _)
HyphenScan(t, p) ==
    IF p > Len(t) THEN <<>>
    ELSE LET j == WordRunEnd(t, p)
             k == SpaceRunEnd(t, j + 2)
             m == WordRunEnd(t, k + 1)
             matches == /\ j >= p
                        /\ j + 1 <= Len(t) /\ t[j + 1] = "-"
                        /\ \E q \in (j + 2)..k : t[q] = "\n"
                        /\ m >= k + 1
         IN  IF matches
             THEN SubSeq(t, p, j) \o SubSeq(t, k + 1, m) \o HyphenScan(t, m + 1)
             ELSE <<t[p]>> \o HyphenScan(t, p + 1)

remove_line_breaks_hyphens(t) == HyphenScan(t, 1)

\* A seeded fault: the lowercase accented letters are missing from the class.
InAlphabetIncomplete(c, keep) ==
    \/ c \in AsciiLetters \cup {"E_acute", "O_slash"}
    \/ keep /\ c \in Digits

\* The characters the pattern of tokenize keeps: [A-Za-zÀ-ÖØ-öø-ÿ], and the
\* digits when keep_numbers is set.
InAlphabet(c, keep) ==
    \/ c \in AsciiLetters \cup AccentedLetters
    \/ keep /\ c \in Digits

\* re.sub(pattern, ' ', text): every maximal run of characters outside the
\* alphabet becomes one space.
RECURSIVE ReplaceRuns(_, _, _)
ReplaceRuns(t, keep, inRun) ==
    IF t = <<>> THEN <<>>
    ELSE IF InAlphabet(t[1], keep) THEN <<t[1]>> \o ReplaceRuns(Tail(t), keep, FALSE)
    ELSE IF inRun THEN ReplaceRuns(Tail(t), keep, TRUE)
    ELSE <<" ">> \o ReplaceRuns(Tail(t), keep, TRUE)

\* str.lower for one character and for a word.
lower_char(c) ==
    CASE c = "B" -> "b"
      [] c = "E" -> "e"
      [] c = "E_acute" -> "e_acute"
      [] c = "O_slash" -> "o_slash"
      [] OTHER -> c

\* A seeded fault: the word is returned as it was read.
lower_unchanged(word) == word

lower(word) == [p \in 1..Len(word) |-> lower_char(word[p])]

\* tokenize
tokenize(t, keep, advanced) ==
    LET t1 == IF advanced THEN remove_line_breaks_hyphens(normalize_unicode(t)) ELSE t
        ws == split(ReplaceRuns(t1, keep, FALSE))
    IN  [k \in 1..Len(ws) |-> lower(ws[k])]

\* count_words
count_words(t, keep) == Len(tokenize(t, keep, TRUE))

\* A seeded fault: keep_numbers is not passed on to tokenize.
get_vocabulary_size_keeping(t, keep) ==
    LET toks == tokenize(t, TRUE, TRUE)
    IN  Cardinality({toks[k] : k \in 1..Len(toks)})

\* get_vocabulary_size: len(set(tokens))
get_vocabulary_size(t, keep) ==
    LET toks == tokenize(t, keep, TRUE)
    IN  Cardinality({toks[k] : k \in 1..Len(toks)})

(***************************************************************************)
(* The specification of the tokeniser: any text over TokAlphabet of at     *)
(* most MaxTokLen characters and any flags; the text is tokenised, the     *)
(* tokens joined by spaces are tokenised again, the words are counted and  *)
(* the distinct words are counted.                                         *)
(***************************************************************************)
TokAlphabet == {"a", "B", "e_acute", "O_slash", "1", "-", "\n", " "}

TokInit ==
    /\ pc = "tokenize_call"
    /\ text \in SeqsUpTo(TokAlphabet, MaxTokLen)
    /\ keep_numbers \in BOOLEAN
    /\ advanced_clean \in BOOLEAN
    /\ tokens = <<>>
    /\ retokens = <<>>
    /\ word_count = 0
    /\ max_length = 0
    /\ chunks = <<>>
    /\ LlmIdle
    /\ SumIdle
    /\ FreqIdle
    /\ CleanIdle
    /\ DocIdle
    /\ FmtIdle
    /\ AnaIdle

Tokenize ==
    /\ pc = "tokenize_call"
    /\ tokens' = tokenize(text, keep_numbers, advanced_clean)
    /\ pc' = "retokenize_call"
    /\ UNCHANGED <<text, keep_numbers, advanced_clean, retokens, word_count>>
    /\ UNCHANGED <<chunkVars, llmVars, sumVars>>
    /\ UNCHANGED <<freqVars, cleanVars, docVars, fmtVars, anaVars>>

Retokenize ==
    /\ pc = "retokenize_call"
    /\ retokens' = tokenize(join(tokens), keep_numbers, advanced_clean)
    /\ pc' = "count_words_call"
    /\ UNCHANGED <<text, keep_numbers, advanced_clean, tokens, word_count>>
    /\ UNCHANGED <<chunkVars, llmVars, sumVars>>
    /\ UNCHANGED <<freqVars, cleanVars, docVars, fmtVars, anaVars>>

CountWords ==
    /\ pc = "count_words_call"
    /\ word_count' = count_words(text, keep_numbers)
    /\ pc' = "counted"
    /\ UNCHANGED <<text, keep_numbers, advanced_clean, tokens, retokens>>
    /\ UNCHANGED <<chunkVars, llmVars, sumVars>>
    /\ UNCHANGED <<freqVars, cleanVars, docVars, fmtVars, anaVars>>

GetVocabularySize ==
    /\ pc = "counted"
    /\ vocabulary_size' = get_vocabulary_size(text, keep_numbers)
    /\ pc' = "vocabulary_done"
    /\ UNCHANGED <<text, tokVars, top_n, remove_stopwords, most_common>>
    /\ UNCHANGED <<chunkVars, llmVars, sumVars, cleanVars, docVars, fmtVars, anaVars>>

TokNext == Tokenize \/ Retokenize \/ CountWords \/ GetVocabularySize

SpecTokens == TokInit /\ [][TokNext]_vars

\* The text is one or more words of letters separated by single spaces.
IsLetterWords(t) ==
    /\ t # <<>>
    /\ \A p \in 1..Len(t) : t[p] = " " \/ t[p] \in AsciiLetters \cup AccentedLetters
    /\ join(split(t)) = t

\* C9: for a text of words of Latin letters, accented ones included, separated
\* by single spaces, count_words with the default flags is the number of
\* words.
CountWordsOfLetterWords ==
    (pc = "counted" /\ ~keep_numbers /\ IsLetterWords(text))
        => word_count = Len(split(text))

\* C10: tokenising the tokens joined by single spaces, with the same flags,
\* gives the same tokens.
TokenizeIdempotent ==
    pc \in {"count_words_call", "counted"} => retokens = tokens

\* A text whose first pass joined a hyphenated line break, lowercased a
\* letter and split at an accent, giving at least two tokens.
TokenizeIdempotentWitness ==
    /\ pc = "count_words_call"
    /\ advanced_clean
    /\ Len(tokens) >= 2
    /\ \E p \in 1..Len(text) : text[p] = "e_acute"
    /\ \E p \in 1..Len(text) : text[p] = "B"

\* A text whose first pass kept an uppercase accented letter as read.
TokenizeIdempotentWitnessPlain ==
    /\ pc = "count_words_call"
    /\ ~advanced_clean
    /\ \E k \in 1..Len(tokens) : \E p \in 1..Len(tokens[k]) : tokens[k][p] = "o_slash"
    /\ \E p \in 1..Len(text) : text[p] = "-"

\* C11: for every text and either value of keep_numbers, the vocabulary size
\* is at most the word count computed with the same keep_numbers.
VocabularyBound ==
    pc = "vocabulary_done" => vocabulary_size <= word_count

\* A text with digits, numbers kept, in which a token occurs twice.
VocabularyBoundWitness ==
    /\ pc = "vocabulary_done"
    /\ keep_numbers
    /\ \E p \in 1..Len(text) : text[p] \in Digits
    /\ 1 <= vocabulary_size
    /\ vocabulary_size < word_count

(***************************************************************************)
(* Word frequencies (src/utils/text.py).                                   *)
(***************************************************************************)
MaxFreqWords == 4
MaxTopN == 3

\* get_portuguese_stopwords: the words of the Portuguese stopword list that
\* can be written with the letters of FreqWords.
StopWords == {<<"a">>, <<"e">>, <<"e", "l", "e">>, <<"e", "l", "a">>}
StopwordMaxLen == 2

\* The number of occurrences of w in the list toks.
Occurrences(toks, w) == Cardinality({k \in 1..Len(toks) : toks[k] = w})

\* [x for x in seq if x in keep]
RECURSIVE SelectIn(_, _)
SelectIn(seq, keepSet) ==
    IF seq = <<>> THEN <<>>
    ELSE (IF seq[1] \in keepSet THEN <<seq[1]>> ELSE <<>>) \o SelectIn(Tail(seq), keepSet)

\* A seeded fault: words of two characters pass the length test.
content_words_short(toks) ==
    SelectIn(toks, {toks[k] : k \in {j \in 1..Len(toks) :
                        toks[j] \notin StopWords /\ Len(toks[j]) >= StopwordMaxLen}})

\* [word for word in tokens if word not in stop_words and len(word) > 2]
content_words(toks) ==
    SelectIn(toks, {toks[k] : k \in {j \in 1..Len(toks) :
                        toks[j] \notin StopWords /\ Len(toks[j]) > StopwordMaxLen}})

\* Counter(tokens): the distinct tokens in the order of their first
\* occurrence, each with the number of its occurrences.
Counter(toks) ==
    LET first == SortedSeq({k \in 1..Len(toks) : \A j \in 1..(k - 1) : toks[j] # toks[k]})
    IN  [p \in 1..Len(first) |-> <<toks[first[p]], Occurrences(toks, toks[first[p]])>>]

\* A seeded fault: the entries are not sorted by count.
most_common_unsorted(counter, num) ==
    SubSeq(counter, 1, Min(IF num < 0 THEN 0 ELSE num, Len(counter)))

\* Counter.most_common(n): the entries sorted by decreasing count, entries of
\* equal count in the order of the counter, cut to the first n.
most_common_of(counter, num) ==
    LET rank(p) == 1 + Cardinality({q \in 1..Len(counter) :
                        \/ counter[q][2] > counter[p][2]
                        \/ counter[q][2] = counter[p][2] /\ q < p})
        sorted == [r \in 1..Len(counter) |->
                      counter[CHOOSE p \in 1..Len(counter) : rank(p) = r]]
    IN  SubSeq(sorted, 1, Min(IF num < 0 THEN 0 ELSE num, Len(counter)))

\* A seeded fault: keep_numbers is not passed on to tokenize.
get_most_common_words_default(t, num, stop, keep) ==
    LET toks == tokenize(t, FALSE, TRUE)
    IN  most_common_of(Counter(IF stop THEN content_words(toks) ELSE toks), num)

\* get_most_common_words
get_most_common_words(t, num, stop, keep) ==
    LET toks == tokenize(t, keep, TRUE)
    IN  most_common_of(Counter(IF stop THEN content_words(toks) ELSE toks), num)

(***************************************************************************)
(* The specification of the word frequencies: any text of at most          *)
(* MaxFreqWords words of FreqWords separated by spaces and any arguments;  *)
(* the words are counted, the distinct words are counted and the most      *)
(* common words are listed.                                                *)
(***************************************************************************)
FreqWords ==
    {<<"e">>, <<"e", "l", "e">>, <<"l", "e", "l">>, <<"l", "1", "l">>, <<"E", "l">>}

FreqInit ==
    /\ pc = "count_words_call"
    /\ text \in {join(ws) : ws \in SeqsUpTo(FreqWords, MaxFreqWords)}
    /\ keep_numbers \in BOOLEAN
    /\ top_n \in 0..MaxTopN
    /\ remove_stopwords \in BOOLEAN
    /\ advanced_clean = FALSE
    /\ tokens = <<>>
    /\ retokens = <<>>
    /\ word_count = 0
    /\ vocabulary_size = 0
    /\ most_common = <<>>
    /\ max_length = 0
    /\ chunks = <<>>
    /\ LlmIdle
    /\ SumIdle
    /\ CleanIdle
    /\ DocIdle
    /\ FmtIdle
    /\ AnaIdle

GetMostCommonWords ==
    /\ pc = "vocabulary_done"
    /\ most_common' = get_most_common_words(text, top_n, remove_stopwords, keep_numbers)
    /\ pc' = "most_common_done"
    /\ UNCHANGED <<text, tokVars, vocabulary_size, top_n, remove_stopwords>>
    /\ UNCHANGED <<chunkVars, llmVars, sumVars, cleanVars, docVars, fmtVars, anaVars>>

FreqNext == CountWords \/ GetVocabularySize \/ GetMostCommonWords

SpecFreq == FreqInit /\ [][FreqNext]_vars

\* The sum of the counts of a list of (word, count) entries.
RECURSIVE SumCounts(_)
SumCounts(entries) ==
    IF entries = <<>> THEN 0 ELSE entries[1][2] + SumCounts(Tail(entries))

\* C12: without stopword removal and with n at least the number of distinct
\* tokens, the counts of the entries of get_most_common_words add up to
\* count_words of the same text with the same keep_numbers.
CountsAddUp ==
    (pc = "most_common_done" /\ ~remove_stopwords /\ top_n >= vocabulary_size)
        => SumCounts(most_common) = word_count

\* Numbers are kept, the text holds a digit and a repeated word, and two
\* entries are returned.
CountsAddUpWitness ==
    /\ pc = "most_common_done"
    /\ ~remove_stopwords
    /\ keep_numbers
    /\ top_n >= vocabulary_size
    /\ \E p \in 1..Len(text) : text[p] \in Digits
    /\ Len(most_common) >= 2
    /\ most_common[1][2] >= 2

\* The tokens get_most_common_words counts: all of them, or with stopword
\* removal those that are no stopword and have at least three characters.
Remaining ==
    LET toks == tokenize(text, keep_numbers, TRUE)
        kept == {k \in 1..Len(toks) :
                    remove_stopwords => (toks[k] \notin StopWords /\ Len(toks[k]) >= 3)}
    IN  [p \in 1..Cardinality(kept) |-> toks[SortedSeq(kept)[p]]]

\* C13: for n >= 1 the list has exactly min(n, number of distinct remaining
\* tokens) entries, each a distinct token with its exact count, in
\* non-increasing order of count, and no omitted token has a higher count than
\* a returned one.
MostCommonRanking ==
    (pc = "most_common_done" /\ top_n >= 1) =>
        LET rem == Remaining
            distinct == {rem[k] : k \in 1..Len(rem)}
            returned == {most_common[k][1] : k \in 1..Len(most_common)}
        IN  /\ Len(most_common) = Min(top_n, Cardinality(distinct))
            /\ Cardinality(returned) = Len(most_common)
            /\ \A k \in 1..Len(most_common) :
                   /\ most_common[k][1] \in distinct
                   /\ most_common[k][2] = Occurrences(rem, most_common[k][1])
            /\ \A k \in 1..(Len(most_common) - 1) :
                   most_common[k][2] >= most_common[k + 1][2]
            /\ \A w \in distinct \ returned : \A k \in 1..Len(most_common) :
                   Occurrences(rem, w) <= most_common[k][2]

\* The first token of the text is rarer than a later one, which comes first
\* in the list, and a token is left out by n.
MostCommonRankingWitness ==
    /\ pc = "most_common_done"
    /\ top_n = 2
    /\ vocabulary_size = 3
    /\ ~remove_stopwords
    /\ Len(most_common) = 2
    /\ most_common[1][2] > most_common[2][2]
    /\ most_common[1][1] # tokenize(text, keep_numbers, TRUE)[1]

\* C14: with stopword removal no returned word is a stopword or has fewer
\* than three characters, and a token that is neither is counted with all its
\* occurrences unless n leaves it out; without stopword removal no token is
\* dropped.
StopwordFilter ==
    pc = "most_common_done" =>
        LET toks == tokenize(text, keep_numbers, TRUE)
            returned == {most_common[k][1] : k \in 1..Len(most_common)}
        IN  /\ remove_stopwords =>
                /\ \A k \in 1..Len(most_common) :
                       /\ most_common[k][1] \notin StopWords
                       /\ Len(most_common[k][1]) > 2
                /\ \A j \in 1..Len(toks) :
                       (toks[j] \notin StopWords /\ Len(toks[j]) >= 3) =>
                           \/ \E k \in 1..Len(most_common) :
                                  most_common[k] = <<toks[j], Occurrences(toks, toks[j])>>
                           \/ Len(most_common) = top_n
            /\ ~remove_stopwords =>
                \/ \A j \in 1..Len(toks) : \E k \in 1..Len(most_common) :
                       most_common[k] = <<toks[j], Occurrences(toks, toks[j])>>
                \/ Len(most_common) = top_n

\* With stopword removal, a text with a stopword of three letters, a word of
\* two letters and a word of three letters that occurs twice and is returned.
StopwordFilterWitness ==
    /\ pc = "most_common_done"
    /\ remove_stopwords
    /\ \E j \in 1..Len(tokenize(text, keep_numbers, TRUE)) :
           tokenize(text, keep_numbers, TRUE)[j] = <<"e", "l", "e">>
    /\ \E j \in 1..Len(tokenize(text, keep_numbers, TRUE)) :
           Len(tokenize(text, keep_numbers, TRUE)[j]) = 2
    /\ most_common = << <<(<<"l", "e", "l">>), 2>> >>

\* Without stopword removal, stopwords and short words are returned.
StopwordFilterWitnessKeeping ==
    /\ pc = "most_common_done"
    /\ ~remove_stopwords
    /\ \E k \in 1..Len(most_common) : most_common[k][1] \in StopWords
    /\ \E k \in 1..Len(most_common) : Len(most_common[k][1]) = 2

\* The text the pattern of tokenize is applied to.
Pretokenized ==
    IF advanced_clean THEN remove_line_breaks_hyphens(normalize_unicode(text)) ELSE text

\* The maximal runs of characters of the set S in t, in order.
MaximalRuns(t, S) ==
    LET starts == SortedSeq({p \in 1..Len(t) :
                      t[p] \in S /\ (p = 1 \/ t[p - 1] \notin S)})
        stop(p) == CHOOSE q \in p..Len(t) :
                       /\ \A r \in p..q : t[r] \in S
                       /\ (q = Len(t) \/ t[q + 1] \notin S)
    IN  [k \in 1..Len(starts) |-> SubSeq(t, starts[k], stop(starts[k]))]

\* C15: without keep_numbers no token holds a digit and a run of digits inside
\* a word separates it like any other character outside the letters; with
\* keep_numbers the digits stay inside the tokens; in both modes every token
\* is non-empty, lowercase and made of characters of the alphabet, and every
\* run of other characters is one separator.
TokenAlphabet ==
    pc # "tokenize_call" =>
        LET letters == {"a", "b", "e", "l", "B", "E",
                        "e_acute", "E_acute", "o_slash", "O_slash"}
            lowercase == {"a", "b", "e", "l", "e_acute", "o_slash"}
            kept == IF keep_numbers THEN letters \cup {"1"} ELSE letters
            runs == MaximalRuns(Pretokenized, kept)
        IN  /\ \A k \in 1..Len(tokens) :
                   /\ tokens[k] # <<>>
                   /\ \A p \in 1..Len(tokens[k]) :
                          \/ tokens[k][p] \in lowercase
                          \/ keep_numbers /\ tokens[k][p] = "1"
            /\ Len(tokens) = Len(runs)
            /\ \A k \in 1..Len(tokens) :
                   /\ Len(tokens[k]) = Len(runs[k])
                   /\ \A p \in 1..Len(tokens[k]) :
                          tokens[k][p] = runs[k][p] \/ tokens[k][p] = lower_char(runs[k][p])

\* Numbers are dropped and a digit between an uppercase and a lowercase
\* letter separates them into two tokens.
TokenAlphabetWitness ==
    /\ pc = "retokenize_call"
    /\ ~keep_numbers
    /\ Len(tokens) = 2
    /\ \E p \in 1..(Len(text) - 2) :
           /\ text[p] = "B"
           /\ text[p + 1] = "1"
           /\ text[p + 2] = "a"

\* Numbers are kept and a digit stays inside a token.
TokenAlphabetWitnessKeeping ==
    /\ pc = "retokenize_call"
    /\ keep_numbers
    /\ \E k \in 1..Len(tokens) : tokens[k] = <<"b", "1", "a">>

(***************************************************************************)
(* clean_text (src/utils/text.py).  Further characters of these texts:     *)
(*   "." "," ";" ":" "!" "?"   punctuation the function keeps              *)
(*   "#"                        a character the function does not keep     *)
(***************************************************************************)
MaxCleanLen == 4

Punctuation == {".", ",", ";", ":", "!", "?", "-"}

\* re.sub(r'\s+', ' ', text): every maximal run of whitespace becomes one
\* space.
RECURSIVE collapse_whitespace(_, _)
collapse_whitespace(t, inRun) ==
    IF t = <<>> THEN <<>>
    ELSE IF ~IsReSpace(t[1]) THEN <<t[1]>> \o collapse_whitespace(Tail(t), FALSE)
    ELSE IF inRun THEN collapse_whitespace(Tail(t), TRUE)
    ELSE <<" ">> \o collapse_whitespace(Tail(t), TRUE)

\* re.sub(r'[^\w\s.,;:!?\-]', ' ', text): every character that is no word
\* character, whitespace or kept punctuation becomes a space.
replace_special(t) ==
    [p \in 1..Len(t) |->
        IF IsWordChar(t[p]) \/ IsReSpace(t[p]) \/ t[p] \in Punctuation THEN t[p] ELSE " "]

\* re.sub(r'\d+', '', text)
remove_digits(t) == SelectIn(t, {t[p] : p \in {q \in 1..Len(t) : t[q] \notin Digits}})

\* str.strip()
RECURSIVE strip(_)
strip(t) ==
    IF t = <<>> THEN <<>>
    ELSE IF IsSpace(t[1]) THEN strip(Tail(t))
    ELSE IF IsSpace(t[Len(t)]) THEN strip(SubSeq(t, 1, Len(t) - 1))
    ELSE t

\* clean_text
clean_text(t, adv) ==
    LET t1 == IF adv THEN remove_line_breaks_hyphens(normalize_unicode(t)) ELSE t
        t2 == collapse_whitespace(t1, FALSE)
        t3 == replace_special(t2)
        t4 == remove_digits(t3)
        t5 == collapse_whitespace(t4, FALSE)
    IN  strip(t5)

(***************************************************************************)
(* The specification of clean_text: any text over CleanAlphabet of at most *)
(* MaxCleanLen characters, cleaned with either value of advanced.          *)
(***************************************************************************)
CleanAlphabet == {"a", "B", "e_acute", "1", "_", "#", ".", "-", "\n", " "}

CleanInit ==
    /\ pc = "clean_text_call"
    /\ text \in SeqsUpTo(CleanAlphabet, MaxCleanLen)
    /\ clean_advanced \in BOOLEAN
    /\ cleaned = <<>>
    /\ max_length = 0
    /\ chunks = <<>>
    /\ LlmIdle
    /\ SumIdle
    /\ TokIdle
    /\ FreqIdle
    /\ DocIdle
    /\ FmtIdle
    /\ AnaIdle

CleanText ==
    /\ pc = "clean_text_call"
    /\ cleaned' = clean_text(text, clean_advanced)
    /\ pc' = "cleaned"
    /\ UNCHANGED <<text, clean_advanced>>
    /\ UNCHANGED <<chunkVars, llmVars, sumVars, tokVars, freqVars, docVars, fmtVars, anaVars>>

CleanNext == CleanText

SpecClean == CleanInit /\ [][CleanNext]_vars

\* s occurs in t as a contiguous part.
Contains(t, s) == \E p \in 0..(Len(t) - Len(s)) : SubSeq(t, p + 1, p + Len(s)) = s

\* The text is a word of letters, a hyphen, a line break and a word of
\* letters.
IsHyphenatedBreak(t) ==
    \E h \in 2..(Len(t) - 2) :
        /\ t[h] = "-"
        /\ t[h + 1] = "\n"
        /\ \A p \in (1..Len(t)) \ {h, h + 1} : t[p] \in AsciiLetters \cup AccentedLetters

\* The letters of t in NFKD form without their combining marks.
Unaccented(t) ==
    LET d == normalize_unicode(t)
    IN  SelectIn(d, {d[p] : p \in {q \in 1..Len(d) : d[q] # "acute"}})

\* C16: with advanced set, the output of clean_text for a word of letters, a
\* hyphen, a line break and a word of letters is the two words joined into
\* one word (in the form read, in its NFKD form or without the accents), not
\* the hyphenated or broken form.
HyphenatedBreakRejoined ==
    (pc = "cleaned" /\ clean_advanced /\ IsHyphenatedBreak(text)) =>
        LET h == CHOOSE q \in 1..Len(text) : text[q] = "-"
            joined == SubSeq(text, 1, h - 1) \o SubSeq(text, h + 2, Len(text))
        IN  /\ \/ Contains(cleaned, joined)
               \/ Contains(cleaned, normalize_unicode(joined))
               \/ Contains(cleaned, Unaccented(joined))
            /\ \A p \in 1..Len(cleaned) : cleaned[p] \notin {"-", " "}

\* C17: for every input and either value of advanced, the output of
\* clean_text holds only letters, digits, the punctuation . , ; : ! ? - and
\* single spaces; no other character of the input (such as "#" or "_")
\* appears in it.
CleanTextAlphabet ==
    pc = "cleaned" =>
        /\ \A p \in 1..Len(cleaned) :
               cleaned[p] \in {"a", "b", "e", "l", "B", "E", "e_acute", "E_acute",
                               "o_slash", "O_slash", "1",
                               ".", ",", ";", ":", "!", "?", "-", " "}
        /\ \A p \in 1..(Len(cleaned) - 1) : ~(cleaned[p] = " " /\ cleaned[p + 1] = " ")

(***************************************************************************)
(* PDFExtractor.detect_sections (src/pdf/extractor.py).  The variable text *)
(* holds the text extract_text returned.  Further characters:              *)
(*   "I" "V" "X"    the letters of roman numerals                          *)
(***************************************************************************)
MaxLines == 2

TitleMinLen == 5
TitleMaxLen == 200

RomanLetters == {"I", "V", "X"}
CapitalLetters == {"B", "E", "I", "V", "X"}

Max(S) == CHOOSE x \in S : \A y \in S : y <= x

\* The last position of the maximal run of characters of S that starts at
\* position p (p - 1 when t[p] is not in S).
RECURSIVE ClassRunEnd(_, _, _)
ClassRunEnd(t, p, S) ==
    IF p <= Len(t) /\ t[p] \in S THEN ClassRunEnd(t, p + 1, S) ELSE p - 1

\* The last position before the next line break at or after position p.
LineEnd(t, p) ==
    LET breaks == {q \in p..Len(t) : t[q] = "\n"}
    IN  IF breaks = {} THEN Len(t)
        ELSE (CHOOSE q \in breaks : \A r \in breaks : q <= r) - 1

\* A match of ^(\d+\.?\s+|[IVX]+\.?\s+|[A-Z]\.?\s+)(.+)$ at the line start
\* p: a run of digits, a run of roman letters or one capital letter up to j,
\* an optional period up to d, and of the whitespace run up to k (line
\* breaks included) the longest part, up to head, that leaves a character
\* other than a line break for the title, which runs to the end of its line.
SectionMatch(t, p) ==
    LET j == IF t[p] \in Digits THEN ClassRunEnd(t, p, Digits)
             ELSE IF t[p] \in RomanLetters THEN ClassRunEnd(t, p, RomanLetters)
             ELSE IF t[p] \in CapitalLetters THEN p
             ELSE p - 1
        d == IF j + 1 <= Len(t) /\ t[j + 1] = "." THEN j + 1 ELSE j
        k == SpaceRunEnd(t, d + 1)
        heads == {m \in (d + 1)..k : m + 1 <= Len(t) /\ t[m + 1] # "\n"}
    IN  IF j >= p /\ heads # {}
        THEN [found |-> TRUE, head |-> Max(heads), last |-> LineEnd(t, Max(heads) + 1)]
        ELSE [found |-> FALSE, head |-> 0, last |-> 0]

\* section_pattern.finditer(text) from the line start p on: the groups 1 and
\* 2 of the matches, in order.  The search resumes after a match, at the
\* next line start.
RECURSIVE SectionScan(_, _)
SectionScan(t, p) ==
    IF p > Len(t) THEN <<>>
    ELSE LET m == SectionMatch(t, p)
         IN  IF m.found
             THEN << <<SubSeq(t, p, m.head), SubSeq(t, m.head + 1, m.last)>> >>
                      \o SectionScan(t, m.last + 2)
             ELSE SectionScan(t, LineEnd(t, p) + 2)

\* The loop over the matches: the stripped groups of the matches whose title
\* has an accepted length.
RECURSIVE SectionLoop(_)
SectionLoop(matches) ==
    IF matches = <<>> THEN <<>>
    ELSE LET section_number == strip(matches[1][1])
             section_title == strip(matches[1][2])
         IN  (IF Len(section_title) > TitleMinLen /\ Len(section_title) < TitleMaxLen
              THEN <<[number |-> section_number, title |-> section_title]>>
              ELSE <<>>) \o SectionLoop(Tail(matches))

\* detect_sections, given the extracted text
detect_sections(t) == SectionLoop(SectionScan(t, 1))

(***************************************************************************)
(* The specification of detect_sections: any text of at most MaxLines      *)
(* lines of SectionLines, joined by line breaks.                           *)
(***************************************************************************)
Rep(c, len) == [k \in 1..len |-> c]

SectionHeads == {<<"1", ".">>, <<"I", "V">>, <<"B", ".">>}

TitleLens == {0, TitleMinLen, TitleMinLen + 1, TitleMaxLen - 1, TitleMaxLen}

\* A head, a space and a title of each length; a head alone; a title alone; a
\* title followed by a space.
SectionLines ==
    {h \o <<" ">> \o Rep("a", len) : h \in SectionHeads, len \in TitleLens}
        \cup {<<"1", ".">>, Rep("a", TitleMinLen + 1),
              <<"1", ".", " ">> \o Rep("a", TitleMinLen) \o <<" ">>}

RECURSIVE JoinLines(_)
JoinLines(lines) ==
    IF lines = <<>> THEN <<>>
    ELSE IF Len(lines) = 1 THEN lines[1]
    ELSE lines[1] \o <<"\n">> \o JoinLines(Tail(lines))

SectionsInit ==
    /\ pc = "detect_sections_call"
    /\ text \in {JoinLines(ls) : ls \in SeqsUpTo(SectionLines, MaxLines)}
    /\ doc = <<>>
    /\ page_num = 0
    /\ titles = <<>>
    /\ sections = <<>>
    /\ max_length = 0
    /\ chunks = <<>>
    /\ LlmIdle
    /\ SumIdle
    /\ TokIdle
    /\ FreqIdle
    /\ CleanIdle
    /\ FmtIdle
    /\ AnaIdle

DetectSections ==
    /\ pc = "detect_sections_call"
    /\ sections' = detect_sections(text)
    /\ pc' = "sections_done"
    /\ UNCHANGED <<text, doc, page_num, titles>>
    /\ UNCHANGED <<chunkVars, llmVars, sumVars, tokVars, freqVars, cleanVars, fmtVars, anaVars>>

SectionsNext == DetectSections

SpecSections == SectionsInit /\ [][SectionsNext]_vars

\* The lines of a text: the parts between its line breaks.
RECURSIVE LinesOf(_)
LinesOf(t) ==
    LET e == LineEnd(t, 1)
    IN  IF e >= Len(t) THEN <<t>>
        ELSE <<SubSeq(t, 1, e)>> \o LinesOf(SubSeq(t, e + 2, Len(t)))

\* The entries of the lines of a list, each line taken alone.
RECURSIVE LineSections(_)
LineSections(lines) ==
    IF lines = <<>> THEN <<>>
    ELSE detect_sections(lines[1]) \o LineSections(Tail(lines))

\* C18: detect_sections returns, in order, exactly one entry for each line
\* that starts with a number, a roman numeral or a capital letter, an
\* optional period and whitespace, and whose stripped title is longer than 5
\* and shorter than 200 characters, with the number and the title of that
\* line.
SectionPerLine ==
    pc = "sections_done" => sections = LineSections(LinesOf(text))

(***************************************************************************)
(* PDFExtractor.detect_titles (src/pdf/extractor.py).  A document is a     *)
(* sequence of pages; a page is readable with its layout, a sequence of    *)
(* blocks, or get_text("dict") fails on it.  A text block has lines, an    *)
(* image block has none; a line has spans; a span has text, size and       *)
(* flags.                                                                  *)
(***************************************************************************)
MaxPages == 3

BoldFlag == 16
TitleFontSize == 12
TitleMaxWords == 15

\* font_flags & 2**4
is_bold(span) == (span.flags \div BoldFlag) % 2 = 1

\* A seeded fault: the threshold size itself counts as large.
is_large_inclusive(span) == span.size >= TitleFontSize

\* font_size > 12
is_large(span) == span.size > TitleFontSize

\* len(text.split()) <= 15
is_short(t) == Len(split(t)) <= TitleMaxWords

\* The loop over the spans of a line: the stripped texts appended to titles.
RECURSIVE SpanLoop(_)
SpanLoop(spans) ==
    IF spans = <<>> THEN <<>>
    ELSE LET t == strip(spans[1].text)
         IN  (IF t # <<>> /\ (is_bold(spans[1]) \/ is_large(spans[1])) /\ is_short(t)
              THEN <<t>> ELSE <<>>) \o SpanLoop(Tail(spans))

\* The loop over the lines of a block.
RECURSIVE LineLoop(_)
LineLoop(lines) ==
    IF lines = <<>> THEN <<>>
    ELSE SpanLoop(lines[1].spans) \o LineLoop(Tail(lines))

\* The loop over the blocks of a page; a block without lines is skipped.
RECURSIVE BlockLoop(_)
BlockLoop(blocks) ==
    IF blocks = <<>> THEN <<>>
    ELSE (IF "lines" \notin DOMAIN blocks[1] THEN <<>> ELSE LineLoop(blocks[1].lines))
             \o BlockLoop(Tail(blocks))

(***************************************************************************)
(* The specification of detect_titles: any document of at most MaxPages    *)
(* pages of PageLayouts.                                                   *)
(***************************************************************************)
Span(t, size, flags) == [text |-> t, size |-> size, flags |-> flags]
TextBlock(lines) == [type |-> 0, lines |-> lines]
ImageBlock == [type |-> 1]
Line(spans) == [spans |-> spans]
Page(blocks) == [readable |-> TRUE, blocks |-> blocks]
UnreadablePage == [readable |-> FALSE, blocks |-> <<>>]

\* A text of the given number of one-letter words.
WordsText(count) == join([k \in 1..count |-> <<"a">>])

LargeSpan == Span(<<"a">>, TitleFontSize + 1, 0)
BoldSpan == Span(<<"b">>, TitleFontSize, BoldFlag + 4)
PlainSpan == Span(<<"e">>, TitleFontSize, BoldFlag - 1)
BlankBoldSpan == Span(<<" ">>, TitleFontSize + 1, BoldFlag)
PaddedSpan == Span(<<" ", "l", " ">>, TitleFontSize + 1, 0)
LongestTitleSpan == Span(WordsText(TitleMaxWords), TitleFontSize, BoldFlag)
TooLongSpan == Span(WordsText(TitleMaxWords + 1), TitleFontSize + 1, BoldFlag)

PageLayouts ==
    { UnreadablePage,
      Page(<<>>),
      Page(<<ImageBlock, TextBlock(<<Line(<<LargeSpan, PlainSpan>>)>>)>>),
      Page(<<TextBlock(<<Line(<<BoldSpan>>), Line(<<BoldSpan>>)>>)>>),
      Page(<<TextBlock(<<Line(<<BlankBoldSpan, PaddedSpan>>)>>)>>),
      Page(<<TextBlock(<<Line(<<TooLongSpan>>)>>),
             TextBlock(<<Line(<<LongestTitleSpan>>)>>)>>) }

TitlesInit ==
    /\ pc = "detect_titles_loop"
    /\ doc \in SeqsUpTo(PageLayouts, MaxPages)
    /\ page_num = 0
    /\ titles = <<>>
    /\ sections = <<>>
    /\ text = <<>>
    /\ max_length = 0
    /\ chunks = <<>>
    /\ LlmIdle
    /\ SumIdle
    /\ TokIdle
    /\ FreqIdle
    /\ CleanIdle
    /\ FmtIdle
    /\ AnaIdle

\* One iteration of the loop over the pages, on a page whose layout is read.
DetectTitlesPage ==
    /\ pc = "detect_titles_loop"
    /\ page_num < Len(doc)
    /\ doc[page_num + 1].readable
    /\ titles' = titles \o BlockLoop(doc[page_num + 1].blocks)
    /\ page_num' = page_num + 1
    /\ UNCHANGED <<pc, text, doc, sections>>
    /\ UNCHANGED <<chunkVars, llmVars, sumVars, tokVars, freqVars, cleanVars, fmtVars, anaVars>>

\* The layout of the page cannot be read: the exception leaves the loop and
\* is caught by the handler around it, and the titles so far are returned.
DetectTitlesPageError ==
    /\ pc = "detect_titles_loop"
    /\ page_num < Len(doc)
    /\ ~doc[page_num + 1].readable
    /\ pc' = "titles_done"
    /\ UNCHANGED <<text, doc, page_num, titles, sections>>
    /\ UNCHANGED <<chunkVars, llmVars, sumVars, tokVars, freqVars, cleanVars, fmtVars, anaVars>>

\* The loop is over: the titles are returned.
DetectTitlesReturn ==
    /\ pc = "detect_titles_loop"
    /\ page_num = Len(doc)
    /\ pc' = "titles_done"
    /\ UNCHANGED <<text, doc, page_num, titles, sections>>
    /\ UNCHANGED <<chunkVars, llmVars, sumVars, tokVars, freqVars, cleanVars, fmtVars, anaVars>>

TitlesNext == DetectTitlesPage \/ DetectTitlesPageError \/ DetectTitlesReturn

SpecTitles == TitlesInit /\ [][TitlesNext]_vars

\* The concatenation of the sequences of a sequence.
RECURSIVE Concat(_)
Concat(seqs) == IF seqs = <<>> THEN <<>> ELSE seqs[1] \o Concat(Tail(seqs))

\* The spans of a list of pages in layout order: page, block, line, span.
SpansOfPages(pages) ==
    LET ofBlock(b) == IF "lines" \in DOMAIN b
                      THEN Concat([k \in 1..Len(b.lines) |-> b.lines[k].spans])
                      ELSE <<>>
        ofPage(pg) == Concat([k \in 1..Len(pg.blocks) |-> ofBlock(pg.blocks[k])])
    IN  Concat([k \in 1..Len(pages) |-> ofPage(pages[k])])

\* The stripped texts of the spans of a list that are bold or larger than 12
\* and have at most 15 words; with nonEmpty, only those whose stripped text
\* is not empty.
CandidateTexts(spans, nonEmpty) ==
    LET candidate(sp) ==
            /\ (sp.flags \div 16) % 2 = 1 \/ sp.size > 12
            /\ Len(split(sp.text)) <= 15
            /\ nonEmpty => strip(sp.text) # <<>>
        chosen == SelectSeq(spans, candidate)
    IN  [k \in 1..Len(chosen) |-> strip(chosen[k].text)]

\* The pages before the first page whose layout cannot be read.
PagesBeforeFailure ==
    LET failed == {k \in 1..Len(doc) : ~doc[k].readable}
    IN  IF failed = {} THEN doc
        ELSE SubSeq(doc, 1, (CHOOSE k \in failed : \A j \in failed : k <= j) - 1)

\* The pages whose layout can be read.
ReadablePages == SelectSeq(doc, LAMBDA pg : pg.readable)

\* C19 as stated: when every page is read, detect_titles returns the text of
\* a span if and only if the span is bold or larger than 12 and has at most
\* 15 words, in layout order and without deduplication.
TitleRule ==
    (pc = "titles_done" /\ \A k \in 1..Len(doc) : doc[k].readable)
        => titles = CandidateTexts(SpansOfPages(doc), FALSE)

\* C19 amended: detect_titles returns the stripped text of a span if and only
\* if that text is not empty, the span is bold or larger than 12 and the text
\* has at most 15 words, in layout order and without deduplication, for the
\* spans of the pages before the first page whose layout cannot be read.
TitleRuleNonEmpty ==
    pc = "titles_done"
        => titles = CandidateTexts(SpansOfPages(PagesBeforeFailure), TRUE)

\* Every page is read; a bold text occurs twice and is returned twice, a
\* blank bold span is left out and a padded text is returned stripped.
TitleRuleNonEmptyWitness ==
    /\ pc = "titles_done"
    /\ \A k \in 1..Len(doc) : doc[k].readable
    /\ titles = << <<"b">>, <<"b">>, <<"l">> >>

\* The longest accepted title is returned and a longer text is not.
TitleRuleNonEmptyWitnessWords ==
    /\ pc = "titles_done"
    /\ \E k \in 1..Len(doc) :
           doc[k].readable /\ TooLongSpan \in {SpansOfPages(<<doc[k]>>)[j] :
                                                  j \in 1..Len(SpansOfPages(<<doc[k]>>))}
    /\ titles = <<WordsText(TitleMaxWords)>>

\* C20: when the layout of a page cannot be read, the page is skipped and
\* the candidates of every other page, those after it included, are
\* returned.
TitlesSkipFailedPage ==
    pc = "titles_done"
        => titles = CandidateTexts(SpansOfPages(ReadablePages), TRUE)

(***************************************************************************)
(* The specification of summarize called with any max_summary_length: a    *)
(* short text and a long one, each length of SummaryLengthValues; the      *)
(* caller handles the result as main does.                                 *)
(***************************************************************************)
SummaryLengthValues ==
    {1, DirectMin - 1, DirectMin, ConsolidationMin - 1, ConsolidationMin,
     DefaultMaxSummaryLength}

SumLengthTexts == {GenText(1, 499, 0), GenText(4, 1000, 0)}

SumLengthInit ==
    /\ pc = "run_summarization"
    /\ text \in SumLengthTexts
    /\ deterministic \in BOOLEAN
    /\ max_summary_length \in SummaryLengthValues
    /\ max_length = 0
    /\ chunks = <<>>
    /\ i = 0
    /\ chunk_summaries = <<>>
    /\ requests = <<>>
    /\ responses = <<>>
    /\ summary = "None"
    /\ exit_status = "None"
    /\ LlmIdle
    /\ TokIdle
    /\ FreqIdle
    /\ CleanIdle
    /\ DocIdle
    /\ FmtIdle
    /\ AnaIdle

SpecSummarizeLengths == SumLengthInit /\ [][SumNext]_vars

\* C26: every request carries the output-length bounds of its kind: a chunk
\* request 30 and 200, the consolidation request 100 and max_summary_length,
\* the direct request 50 and max_summary_length.
RequestBounds ==
    \A j \in 1..Len(requests) :
        /\ requests[j].kind = "chunk" =>
               requests[j].min_length = 30 /\ requests[j].max_length = 200
        /\ requests[j].kind = "consolidation" =>
               requests[j].min_length = 100 /\ requests[j].max_length = max_summary_length
        /\ requests[j].kind = "direct" =>
               requests[j].min_length = 50 /\ requests[j].max_length = max_summary_length

\* Chunk requests and the consolidation request were issued with a
\* max_summary_length other than the default.
RequestBoundsWitness ==
    /\ pc = "cleanup"
    /\ max_summary_length = 99
    /\ Len(requests) >= 3
    /\ requests[1].kind = "chunk"
    /\ requests[Len(requests)].kind = "consolidation"

\* A direct request was issued with a max_summary_length other than the
\* default.
RequestBoundsWitnessDirect ==
    /\ pc = "cleanup"
    /\ max_summary_length = 50
    /\ Len(requests) = 1
    /\ requests[1].kind = "direct"

\* C27: on the direct path the prompt embeds exactly the first 2000
\* characters of the text: the whole text when it has at most 2000
\* characters, text[0:2000] when it has more.
DirectPromptPrefix ==
    pc = "final_wait" =>
        \A j \in 1..Len(requests) :
            requests[j].kind = "direct" =>
                /\ Len(text) <= 3000
                /\ Len(text) <= 2000 => requests[j].body = text
                /\ Len(text) > 2000 =>
                       /\ Len(requests[j].body) = 2000
                       /\ \A p \in 1..2000 : requests[j].body[p] = text[p]

\* A text of 2001 to 3000 characters took the direct path.
DirectPromptPrefixWitness ==
    /\ pc = "final_wait"
    /\ Len(text) > 2000
    /\ Len(requests) = 1
    /\ requests[1].kind = "direct"

\* A non-empty text of at most 2000 characters took the direct path.
DirectPromptPrefixWitnessWhole ==
    /\ pc = "final_wait"
    /\ Len(text) \in 1..2000
    /\ Len(requests) = 1
    /\ requests[1].kind = "direct"

\* C29: for every text and every max_summary_length >= 1, each request has
\* min_length <= max_length.
RequestBoundsOrdered ==
    max_summary_length >= 1 =>
        \A j \in 1..Len(requests) : requests[j].min_length <= requests[j].max_length

\* C28: the words are packed greedily: for consecutive chunks c and d with w
\* the first word of d, len(c) + len(w) + 2 > max_length; every chunk is
\* non-empty and a text with no words yields no chunk.
GreedyPacking ==
    pc = "split_done" =>
        /\ \A j \in 1..(Len(chunks) - 1) :
               Len(chunks[j]) + Len(split(chunks[j + 1])[1]) + 2 > max_length
        /\ \A j \in 1..Len(chunks) : chunks[j] # <<>>
        /\ split(text) = <<>> => chunks = <<>>

\* A chunk is followed by another chunk whose first word would have gone
\* exactly one character over the bound.
GreedyPackingWitness ==
    /\ pc = "split_done"
    /\ \E j \in 1..(Len(chunks) - 1) :
           Len(chunks[j]) + Len(split(chunks[j + 1])[1]) + 2 = max_length + 1

\* A chunk of two words is followed by another chunk.
GreedyPackingWitnessPacked ==
    /\ pc = "split_done"
    /\ \E j \in 1..(Len(chunks) - 1) : Len(split(chunks[j])) = 2

\* A text of spaces only yields no chunk.
GreedyPackingWitnessEmpty ==
    /\ pc = "split_done"
    /\ Len(text) >= 2
    /\ chunks = <<>>

(***************************************************************************)
(* format_bytes (utils/files.py): a size rendered with a unit.  The size   *)
(* is divided by 1024.0 until it is below 1024; every such quotient of an  *)
(* integer below 2^53 is exact, and the format .2f rounds the exact value  *)
(* to the nearest hundredth, a tie going to the even one.                  *)
(***************************************************************************)
MaxSizeOffset == 5

Kilo == 1024

Units == <<<<"B">>, <<"K", "B">>, <<"M", "B">>, <<"G", "B">>, <<"T", "B">>>>

LastUnit == <<"P", "B">>

DecimalDigit(d) == <<"0", "1", "2", "3", "4", "5", "6", "7", "8", "9">>[d + 1]

\* str(n) of a natural number.
RECURSIVE Decimal(_)
Decimal(n) ==
    IF n < 10 THEN <<DecimalDigit(n)>>
    ELSE Append(Decimal(n \div 10), DecimalDigit(n % 10))

RECURSIVE Power(_, _)
Power(b, e) == IF e = 0 THEN 1 ELSE b * Power(b, e - 1)

\* <<(a * 10) \div den, (a * 10) % den>> for a < den, by repeated addition.
RECURSIVE TimesTen(_, _, _, _)
TimesTen(a, den, k, acc) ==
    IF k = 0 THEN acc
    ELSE LET r == acc[2] + a
         IN  TimesTen(a, den, k - 1,
                      IF r >= den THEN <<acc[1] + 1, r - den>> ELSE <<acc[1], r>>)

\* The number of hundredths nearest to num / den, a tie going to the even one.
Hundredths(num, den) ==
    LET ip == num \div den
        d1 == TimesTen(num % den, den, 10, <<0, 0>>)
        d2 == TimesTen(d1[2], den, 10, <<0, 0>>)
        h  == ip * 100 + d1[1] * 10 + d2[1]
        r  == d2[2]
    IN  IF r > den - r \/ (r = den - r /\ h % 2 = 1) THEN h + 1 ELSE h

\* f"{num / den:.2f} {unit}"
format_2f(num, den, unit) ==
    LET h == Hundredths(num, den)
    IN  Decimal(h \div 100) \o <<".", DecimalDigit((h % 100) \div 10),
                                 DecimalDigit(h % 10), " ">> \o unit

\* A seeded fault: the units change at 1000.
RECURSIVE format_loop_decimal(_, _)
format_loop_decimal(sz, k) ==
    IF k > Len(Units) THEN format_2f(sz, Power(Kilo, k - 1), LastUnit)
    ELSE IF sz \div Power(Kilo, k - 1) < 1000
         THEN format_2f(sz, Power(Kilo, k - 1), Units[k])
         ELSE format_loop_decimal(sz, k + 1)

\* The loop over the units; at unit k the running size is sz / 1024^(k-1).
RECURSIVE format_loop(_, _)
format_loop(sz, k) ==
    IF k > Len(Units) THEN format_2f(sz, Power(Kilo, k - 1), LastUnit)
    ELSE IF sz \div Power(Kilo, k - 1) < Kilo
         THEN format_2f(sz, Power(Kilo, k - 1), Units[k])
         ELSE format_loop(sz, k + 1)

format_bytes(sz) == format_loop(sz, 1)

\* The sizes of the model: those around the unit changes and some between.
SizeMarks == {0, 500, Kilo, Kilo + 128, Kilo * Kilo, Kilo * Kilo * Kilo}

FormatSizes ==
    {m + d : m \in SizeMarks, d \in (0 - MaxSizeOffset)..MaxSizeOffset} \cap Nat

FormatInit ==
    /\ pc = "format_bytes_call"
    /\ byte_size \in FormatSizes
    /\ formatted = <<>>
    /\ text = <<>>
    /\ max_length = 0
    /\ chunks = <<>>
    /\ LlmIdle
    /\ SumIdle
    /\ TokIdle
    /\ FreqIdle
    /\ CleanIdle
    /\ DocIdle
    /\ AnaIdle

FormatBytes ==
    /\ pc = "format_bytes_call"
    /\ formatted' = format_bytes(byte_size)
    /\ pc' = "format_done"
    /\ UNCHANGED <<text, byte_size>>
    /\ UNCHANGED <<chunkVars, llmVars, sumVars, tokVars, freqVars, cleanVars, docVars,
                   anaVars>>

FormatNext == FormatBytes

SpecFormat == FormatInit /\ [][FormatNext]_vars

\* The last n characters of s.
Suffix(s, n) == SubSeq(s, Len(s) - n + 1, Len(s))

\* C25: a size below 1024 is rendered as the integer count followed by
\* "bytes", a size in [1024, 1024^2) in KB, in [1024^2, 1024^3) in MB and in
\* [1024^3, 1024^4) in GB; 1024 gives "1.00 KB".
FormatBytesUnits ==
    pc = "format_done" =>
        /\ byte_size < Kilo =>
               formatted = Decimal(byte_size) \o <<" ", "b", "y", "t", "e", "s">>
        /\ byte_size >= Kilo /\ byte_size \div Kilo < Kilo =>
               Suffix(formatted, 3) = <<" ", "K", "B">>
        /\ byte_size \div Kilo >= Kilo /\ byte_size \div (Kilo * Kilo) < Kilo =>
               Suffix(formatted, 3) = <<" ", "M", "B">>
        /\ byte_size \div (Kilo * Kilo) >= Kilo => Suffix(formatted, 3) = <<" ", "G", "B">>
        /\ byte_size = Kilo => formatted = <<"1", ".", "0", "0", " ", "K", "B">>

\* The same with the sizes below 1024 left out: the unit follows the powers
\* of 1024 from KB on.
FormatBytesUnitsFromKilo ==
    pc = "format_done" /\ byte_size >= Kilo =>
        /\ byte_size \div Kilo < Kilo => Suffix(formatted, 3) = <<" ", "K", "B">>
        /\ byte_size \div Kilo >= Kilo /\ byte_size \div (Kilo * Kilo) < Kilo =>
               Suffix(formatted, 3) = <<" ", "M", "B">>
        /\ byte_size \div (Kilo * Kilo) >= Kilo => Suffix(formatted, 3) = <<" ", "G", "B">>
        /\ byte_size = Kilo => formatted = <<"1", ".", "0", "0", " ", "K", "B">>

(***************************************************************************)
(* PDFExtractor.extract_text, count_words_from_pdf and analyze             *)
(* (pdf/extractor.py) and main (main.py).                                  *)
(*                                                                         *)
(* A page of the document is a record: the layout page.get_text("dict")    *)
(* returns (blocks) unless it raises (readable), the text page.get_text()  *)
(* returns unless it raises (text_fails), and whether                      *)
(* page.get_text("words") raises (words_fail); the words it returns are    *)
(* the whitespace-separated words of the text.  Besides these failures of  *)
(* a page, any access to a page may raise MemoryError.                     *)
(***************************************************************************)
MaxAnalysisPages == 2

DefaultTopNWords == 10
KeywordCount == 15
TitlesKept == 10
SectionsKept == 20

\* page.get_text(): the text of the spans of each line, a line break after
\* each line.
LayoutText(blocks) ==
    LET ofLine(ln) == Concat([k \in 1..Len(ln.spans) |-> ln.spans[k].text]) \o <<"\n">>
        ofBlock(b) == IF "lines" \in DOMAIN b
                      THEN Concat([k \in 1..Len(b.lines) |-> ofLine(b.lines[k])])
                      ELSE <<>>
    IN  Concat([k \in 1..Len(blocks) |-> ofBlock(blocks[k])])

AnalysisPage(blocks, words_fail) ==
    [readable |-> TRUE, blocks |-> blocks, text |-> LayoutText(blocks),
     text_fails |-> FALSE, words_fail |-> words_fail]

\* A page with a numbered heading in a large font: "1. bela-ele".
TitlePage ==
    AnalysisPage(<<TextBlock(<<Line(<<Span(<<"1", ".", " ", "b", "e", "l", "a", "-",
                                             "e", "l", "e">>, TitleFontSize + 1, 0)>>)>>)>>,
                 FALSE)

\* A page of plain text: "bela bela ele".
PlainPage ==
    AnalysisPage(<<TextBlock(<<Line(<<Span(<<"b", "e", "l", "a", " ", "b", "e", "l", "a",
                                             " ", "e", "l", "e">>, TitleFontSize, 0)>>)>>)>>,
                 FALSE)

\* A page whose words cannot be listed although its text can be read: "bebe".
WordlessPage ==
    AnalysisPage(<<TextBlock(<<Line(<<Span(<<"b", "e", "b", "e">>, TitleFontSize,
                                           BoldFlag)>>)>>)>>,
                 TRUE)

\* A damaged page: every access to it raises.
BrokenPage ==
    [readable |-> FALSE, blocks |-> <<>>, text |-> <<>>, text_fails |-> TRUE,
     words_fail |-> TRUE]

AnalysisPages == {TitlePage, PlainPage, WordlessPage, BrokenPage}

\* f"[Erro na página {page_num + 1}]"
placeholder(page_index) ==
    <<"[", "E", "r", "r", "o", " ", "n", "a", " ", "p", "a_acute", "g", "i", "n", "a",
      " ">> \o Decimal(page_index + 1) \o <<"]">>

\* round(num / den, 2), in hundredths.
round2(num, den) == Hundredths(num, den)

\* The dictionary analyze builds from the statistics.
analysis_dict(page_count, wc, vs, mc, t) ==
    [page_count         |-> page_count,
     word_count         |-> wc,
     vocabulary_size    |-> vs,
     avg_words_per_page |-> round2(wc, Max({page_count, 1})),
     lexical_diversity  |-> round2(vs * 100, Max({wc, 1})),
     most_common_words  |-> mc,
     full_text          |-> t]

\* The command lines of the model.  max_pages = 0 stands for no --max-pages;
\* file is the state of the input file when it is opened.
ArgsOf(valid, file, word_mode, keep, no_structure, max_pages, skip) ==
    [valid |-> valid, file |-> file, word_mode |-> word_mode, keep_numbers |-> keep,
     top_n_words |-> DefaultTopNWords, no_structure |-> no_structure,
     max_pages |-> max_pages, no_images |-> skip, no_summary |-> skip]

OpenableArgs ==
    {ArgsOf(TRUE, "pdf", w, k, ns, m, q) :
         w \in {"text", "pdf"}, k \in BOOLEAN, ns \in BOOLEAN, m \in {0, 1}, q \in BOOLEAN}

FailingArgs ==
    {ArgsOf(FALSE, "pdf", "text", FALSE, FALSE, 0, FALSE),
     ArgsOf(TRUE, "missing", "text", FALSE, FALSE, 0, FALSE),
     ArgsOf(TRUE, "corrupt", "text", FALSE, FALSE, 0, FALSE)}

MainInit ==
    /\ pc = "main"
    /\ \/ /\ args \in OpenableArgs
          /\ doc \in SeqsUpTo(AnalysisPages, MaxAnalysisPages)
       \/ /\ args \in FailingArgs
          /\ doc = <<>>
    /\ page_num = 0
    /\ titles = <<>>
    /\ sections = <<>>
    /\ caller = "None"
    /\ text_parts = <<>>
    /\ extracted = <<>>
    /\ total_words = 0
    /\ keywords = <<>>
    /\ analysis = NoAnalysis
    /\ raised = "None"
    /\ memory_error = FALSE
    /\ text = <<>>
    /\ max_length = 0
    /\ chunks = <<>>
    /\ deterministic = FALSE
    /\ max_summary_length \in SummaryLengths
    /\ i = 0
    /\ chunk_summaries = <<>>
    /\ requests = <<>>
    /\ responses = <<>>
    /\ summary = "None"
    /\ exit_status = "None"
    /\ LlmIdle
    /\ TokIdle
    /\ FreqIdle
    /\ CleanIdle
    /\ FmtIdle

sumInputVars == <<deterministic, max_summary_length, i, chunk_summaries, requests, responses,
                  summary>>
statVars == <<keep_numbers, advanced_clean, tokens, retokens>>

\* main: validate_args fails and main returns 1, or the run goes on.
ValidateArgs ==
    /\ pc = "main"
    /\ IF args.valid
       THEN /\ pc' = "run_pdf_analysis"
            /\ exit_status' = exit_status
       ELSE /\ pc' = "exit"
            /\ exit_status' = 1
    /\ UNCHANGED <<text, sumInputVars, freqVars, docVars, anaVars, word_count, statVars>>
    /\ UNCHANGED <<chunkVars, llmVars, cleanVars, fmtVars>>

\* _run_pdf_analysis: PDFExtractor.__init__ raises for a missing file or one
\* that cannot be opened, a document of no page is refused, and otherwise
\* analyze is called on the whole document (--max-pages is only logged);
\* analyze begins with extract_text.
RunPdfAnalysis ==
    /\ pc = "run_pdf_analysis"
    /\ IF args.file = "missing"
       THEN /\ raised' = "FileNotFoundError"
            /\ pc' = "propagate"
            /\ caller' = caller
       ELSE IF args.file = "corrupt" \/ Len(doc) = 0
       THEN /\ raised' = "ValueError"
            /\ pc' = "propagate"
            /\ caller' = caller
       ELSE /\ raised' = raised
            /\ pc' = "extract_text_loop"
            /\ caller' = "analyze"
    /\ page_num' = 0
    /\ text_parts' = <<>>
    /\ UNCHANGED <<text, sumInputVars, exit_status, freqVars, word_count, statVars>>
    /\ UNCHANGED <<doc, titles, sections, args, extracted, total_words, keywords, analysis,
                   memory_error>>
    /\ UNCHANGED <<chunkVars, llmVars, cleanVars, fmtVars>>

\* A seeded fault: the loop stops at the first page that fails.
ExtractTextPageErrorStopping ==
    /\ pc = "extract_text_loop"
    /\ page_num < Len(doc)
    /\ doc[page_num + 1].text_fails
    /\ text_parts' = Append(text_parts, placeholder(page_num))
    /\ page_num' = Len(doc)
    /\ UNCHANGED <<pc, text, sumInputVars, exit_status, freqVars, word_count, statVars>>
    /\ UNCHANGED <<doc, titles, sections, args, caller, extracted, total_words, keywords,
                   analysis, raised, memory_error>>
    /\ UNCHANGED <<chunkVars, llmVars, cleanVars, fmtVars>>

\* extract_text, one iteration on a page whose text cannot be read: the
\* placeholder is appended and the loop goes on.
ExtractTextPageError ==
    /\ pc = "extract_text_loop"
    /\ page_num < Len(doc)
    /\ doc[page_num + 1].text_fails
    /\ text_parts' = Append(text_parts, placeholder(page_num))
    /\ page_num' = page_num + 1
    /\ UNCHANGED <<pc, text, sumInputVars, exit_status, freqVars, word_count, statVars>>
    /\ UNCHANGED <<doc, titles, sections, args, caller, extracted, total_words, keywords,
                   analysis, raised, memory_error>>
    /\ UNCHANGED <<chunkVars, llmVars, cleanVars, fmtVars>>

\* extract_text, one iteration on a page whose text is read.
ExtractTextPage ==
    /\ pc = "extract_text_loop"
    /\ page_num < Len(doc)
    /\ ~doc[page_num + 1].text_fails
    /\ text_parts' = Append(text_parts, doc[page_num + 1].text)
    /\ page_num' = page_num + 1
    /\ UNCHANGED <<pc, text, sumInputVars, exit_status, freqVars, word_count, statVars>>
    /\ UNCHANGED <<doc, titles, sections, args, caller, extracted, total_words, keywords,
                   analysis, raised, memory_error>>
    /\ UNCHANGED <<chunkVars, llmVars, cleanVars, fmtVars>>

\* extract_text, one iteration that runs out of memory: a new MemoryError is
\* raised out of extract_text.
ExtractTextPageMemoryError ==
    /\ pc = "extract_text_loop"
    /\ page_num < Len(doc)
    /\ memory_error' = TRUE
    /\ raised' = "MemoryError"
    /\ pc' = "extract_text_raised"
    /\ UNCHANGED <<text, sumInputVars, exit_status, freqVars, word_count, statVars>>
    /\ UNCHANGED <<docVars, args, caller, text_parts, extracted, total_words, keywords,
                   analysis>>
    /\ UNCHANGED <<chunkVars, llmVars, cleanVars, fmtVars>>

\* extract_text after the loop: the parts joined by line breaks are returned.
ExtractTextReturn ==
    /\ pc = "extract_text_loop"
    /\ page_num = Len(doc)
    /\ extracted' = JoinLines(text_parts)
    /\ pc' = "extract_text_returned"
    /\ UNCHANGED <<text, sumInputVars, exit_status, freqVars, word_count, statVars>>
    /\ UNCHANGED <<docVars, args, caller, text_parts, total_words, keywords, analysis,
                   raised, memory_error>>
    /\ UNCHANGED <<chunkVars, llmVars, cleanVars, fmtVars>>

\* analyze when extract_text raised: the MemoryError is raised again.
AnalyzeReraise ==
    /\ pc = "extract_text_raised"
    /\ caller = "analyze"
    /\ pc' = "propagate"
    /\ UNCHANGED <<text, sumInputVars, exit_status, freqVars, docVars, anaVars, word_count,
                   statVars>>
    /\ UNCHANGED <<chunkVars, llmVars, cleanVars, fmtVars>>

\* The position after the statistics: the structure of the document is
\* analysed unless --no-structure was given.
AfterStatistics == IF args.no_structure THEN "analyze_returned" ELSE "detect_titles_loop"

\* analyze in text mode: the statistics are computed from the text.
AnalyzeTextMode ==
    /\ pc = "extract_text_returned"
    /\ caller = "analyze"
    /\ args.word_mode # "pdf"
    /\ text' = extracted
    /\ word_count' = count_words(extracted, args.keep_numbers)
    /\ vocabulary_size' = get_vocabulary_size(extracted, args.keep_numbers)
    /\ most_common' = get_most_common_words(extracted, args.top_n_words, TRUE,
                                             args.keep_numbers)
    /\ analysis' = analysis_dict(Len(doc), word_count', vocabulary_size', most_common',
                                 extracted)
    /\ pc' = AfterStatistics
    /\ page_num' = 0
    /\ titles' = <<>>
    /\ UNCHANGED <<sumInputVars, exit_status, top_n, remove_stopwords, statVars>>
    /\ UNCHANGED <<doc, sections, args, caller, text_parts, extracted, total_words, keywords,
                   raised, memory_error>>
    /\ UNCHANGED <<chunkVars, llmVars, cleanVars, fmtVars>>

\* analyze in pdf mode: count_words_from_pdf is called.
AnalyzePdfMode ==
    /\ pc = "extract_text_returned"
    /\ caller = "analyze"
    /\ args.word_mode = "pdf"
    /\ text' = extracted
    /\ pc' = "count_words_loop"
    /\ page_num' = 0
    /\ total_words' = 0
    /\ UNCHANGED <<sumInputVars, exit_status, freqVars, word_count, statVars>>
    /\ UNCHANGED <<doc, titles, sections, args, caller, text_parts, extracted, keywords,
                   analysis, raised, memory_error>>
    /\ UNCHANGED <<chunkVars, llmVars, cleanVars, fmtVars>>

\* count_words_from_pdf, one iteration on a page whose words are listed.
CountWordsPage ==
    /\ pc = "count_words_loop"
    /\ page_num < Len(doc)
    /\ ~doc[page_num + 1].words_fail
    /\ total_words' = total_words + Len(split(doc[page_num + 1].text))
    /\ page_num' = page_num + 1
    /\ UNCHANGED <<pc, text, sumInputVars, exit_status, freqVars, word_count, statVars>>
    /\ UNCHANGED <<doc, titles, sections, args, caller, text_parts, extracted, keywords,
                   analysis, raised, memory_error>>
    /\ UNCHANGED <<chunkVars, llmVars, cleanVars, fmtVars>>

\* count_words_from_pdf, one iteration on a page whose words cannot be
\* listed: the exception is logged and the page adds nothing.
CountWordsPageError ==
    /\ pc = "count_words_loop"
    /\ page_num < Len(doc)
    /\ doc[page_num + 1].words_fail
    /\ page_num' = page_num + 1
    /\ UNCHANGED <<pc, text, sumInputVars, exit_status, freqVars, word_count, statVars>>
    /\ UNCHANGED <<doc, titles, sections, args, caller, text_parts, extracted, total_words,
                   keywords, analysis, raised, memory_error>>
    /\ UNCHANGED <<chunkVars, llmVars, cleanVars, fmtVars>>

\* count_words_from_pdf, one iteration that runs out of memory: MemoryError
\* is an Exception, so the same handler logs it and the loop goes on.
CountWordsPageMemoryError ==
    /\ pc = "count_words_loop"
    /\ page_num < Len(doc)
    /\ memory_error' = TRUE
    /\ page_num' = page_num + 1
    /\ UNCHANGED <<pc, text, sumInputVars, exit_status, freqVars, word_count, statVars>>
    /\ UNCHANGED <<doc, titles, sections, args, caller, text_parts, extracted, total_words,
                   keywords, analysis, raised>>
    /\ UNCHANGED <<chunkVars, llmVars, cleanVars, fmtVars>>

\* count_words_from_pdf returns the total, and analyze computes the other
\* statistics from the text.
CountWordsReturn ==
    /\ pc = "count_words_loop"
    /\ page_num = Len(doc)
    /\ word_count' = total_words
    /\ vocabulary_size' = get_vocabulary_size(text, args.keep_numbers)
    /\ most_common' = get_most_common_words(text, args.top_n_words, TRUE, args.keep_numbers)
    /\ analysis' = analysis_dict(Len(doc), word_count', vocabulary_size', most_common', text)
    /\ pc' = AfterStatistics
    /\ page_num' = 0
    /\ titles' = <<>>
    /\ UNCHANGED <<text, sumInputVars, exit_status, top_n, remove_stopwords, statVars>>
    /\ UNCHANGED <<doc, sections, args, caller, text_parts, extracted, total_words, keywords,
                   raised, memory_error>>
    /\ UNCHANGED <<chunkVars, llmVars, cleanVars, fmtVars>>

\* detect_titles, one iteration that runs out of memory: the handler around
\* the loop catches the MemoryError and the titles so far are returned.
DetectTitlesPageMemoryError ==
    /\ pc = "detect_titles_loop"
    /\ page_num < Len(doc)
    /\ memory_error' = TRUE
    /\ pc' = "titles_done"
    /\ UNCHANGED <<text, sumInputVars, exit_status, freqVars, word_count, statVars>>
    /\ UNCHANGED <<docVars, args, caller, text_parts, extracted, total_words, keywords,
                   analysis, raised>>
    /\ UNCHANGED <<chunkVars, llmVars, cleanVars, fmtVars>>

\* analyze calls detect_sections, which begins with extract_text.
DetectSectionsCall ==
    /\ pc = "titles_done"
    /\ caller = "analyze"
    /\ caller' = "detect_sections"
    /\ pc' = "extract_text_loop"
    /\ page_num' = 0
    /\ text_parts' = <<>>
    /\ UNCHANGED <<text, sumInputVars, exit_status, freqVars, word_count, statVars>>
    /\ UNCHANGED <<doc, titles, sections, args, extracted, total_words, keywords, analysis,
                   raised, memory_error>>
    /\ UNCHANGED <<chunkVars, llmVars, cleanVars, fmtVars>>

\* detect_sections with the text: the matches are listed; analyze then calls
\* extract_keywords, which begins with extract_text.
DetectSectionsMatch ==
    /\ pc = "extract_text_returned"
    /\ caller = "detect_sections"
    /\ sections' = detect_sections(extracted)
    /\ caller' = "extract_keywords"
    /\ pc' = "extract_text_loop"
    /\ page_num' = 0
    /\ text_parts' = <<>>
    /\ UNCHANGED <<text, sumInputVars, exit_status, freqVars, word_count, statVars>>
    /\ UNCHANGED <<doc, titles, args, extracted, total_words, keywords, analysis, raised,
                   memory_error>>
    /\ UNCHANGED <<chunkVars, llmVars, cleanVars, fmtVars>>

\* detect_sections when extract_text raised: the MemoryError is caught and no
\* section is returned.
DetectSectionsCatch ==
    /\ pc = "extract_text_raised"
    /\ caller = "detect_sections"
    /\ sections' = <<>>
    /\ raised' = "None"
    /\ caller' = "extract_keywords"
    /\ pc' = "extract_text_loop"
    /\ page_num' = 0
    /\ text_parts' = <<>>
    /\ UNCHANGED <<text, sumInputVars, exit_status, freqVars, word_count, statVars>>
    /\ UNCHANGED <<doc, titles, args, extracted, total_words, keywords, analysis,
                   memory_error>>
    /\ UNCHANGED <<chunkVars, llmVars, cleanVars, fmtVars>>

\* The dictionary with the structure added.
with_structure(a, ts, ss, ks) ==
    [page_count         |-> a.page_count,
     word_count         |-> a.word_count,
     vocabulary_size    |-> a.vocabulary_size,
     avg_words_per_page |-> a.avg_words_per_page,
     lexical_diversity  |-> a.lexical_diversity,
     most_common_words  |-> a.most_common_words,
     full_text          |-> a.full_text,
     titles             |-> Take(ts, TitlesKept),
     sections           |-> Take(ss, SectionsKept),
     keywords           |-> ks]

\* extract_keywords with the text: the most common words are counted;
\* analyze adds the structure to the dictionary and returns it.
ExtractKeywords ==
    /\ pc = "extract_text_returned"
    /\ caller = "extract_keywords"
    /\ keywords' = get_most_common_words(extracted, KeywordCount, TRUE, FALSE)
    /\ analysis' = with_structure(analysis, titles, sections, keywords')
    /\ caller' = "analyze"
    /\ pc' = "analyze_returned"
    /\ UNCHANGED <<text, sumInputVars, exit_status, freqVars, word_count, statVars>>
    /\ UNCHANGED <<docVars, args, text_parts, extracted, total_words, raised, memory_error>>
    /\ UNCHANGED <<chunkVars, llmVars, cleanVars, fmtVars>>

\* extract_keywords when extract_text raised: the MemoryError is caught and
\* no keyword is returned; analyze adds the structure and returns.
ExtractKeywordsCatch ==
    /\ pc = "extract_text_raised"
    /\ caller = "extract_keywords"
    /\ keywords' = <<>>
    /\ raised' = "None"
    /\ analysis' = with_structure(analysis, titles, sections, <<>>)
    /\ caller' = "analyze"
    /\ pc' = "analyze_returned"
    /\ UNCHANGED <<text, sumInputVars, exit_status, freqVars, word_count, statVars>>
    /\ UNCHANGED <<docVars, args, text_parts, extracted, total_words, memory_error>>
    /\ UNCHANGED <<chunkVars, llmVars, cleanVars, fmtVars>>

\* The position of main after a step: the next enabled step.
AfterImages == IF args.no_summary THEN "report" ELSE "run_summarization"

\* main after _run_pdf_analysis returned: step 2 unless --no-images.
AnalysisReturned ==
    /\ pc = "analyze_returned"
    /\ pc' = IF args.no_images THEN AfterImages ELSE "run_image_extraction"
    /\ UNCHANGED <<text, sumInputVars, exit_status, freqVars, docVars, anaVars, word_count,
                   statVars>>
    /\ UNCHANGED <<chunkVars, llmVars, cleanVars, fmtVars>>

\* _run_image_extraction: the output directory cannot be made and the error
\* is raised, or the images are extracted, where an image that runs out of
\* memory is logged and skipped.
RunImageExtraction ==
    /\ pc = "run_image_extraction"
    /\ \E outcome \in {"ok", "memory", "directory"} :
          /\ memory_error' = (memory_error \/ outcome = "memory")
          /\ raised' = IF outcome = "directory" THEN "OSError" ELSE raised
          /\ pc' = IF outcome = "directory" THEN "propagate" ELSE AfterImages
    /\ UNCHANGED <<text, sumInputVars, exit_status, freqVars, word_count, statVars>>
    /\ UNCHANGED <<docVars, args, caller, text_parts, extracted, total_words, keywords,
                   analysis>>
    /\ UNCHANGED <<chunkVars, llmVars, cleanVars, fmtVars>>

MainNext ==
    \/ ValidateArgs
    \/ RunPdfAnalysis
    \/ ExtractTextPage
    \/ ExtractTextPageError
    \/ ExtractTextPageMemoryError
    \/ ExtractTextReturn
    \/ AnalyzeReraise
    \/ AnalyzeTextMode
    \/ AnalyzePdfMode
    \/ CountWordsPage
    \/ CountWordsPageError
    \/ CountWordsPageMemoryError
    \/ CountWordsReturn
    \/ DetectTitlesPage
    \/ DetectTitlesPageError
    \/ DetectTitlesPageMemoryError
    \/ DetectTitlesReturn
    \/ DetectSectionsCall
    \/ DetectSectionsMatch
    \/ DetectSectionsCatch
    \/ ExtractKeywords
    \/ ExtractKeywordsCatch
    \/ AnalysisReturned
    \/ RunImageExtraction
    \/ SummarizerInit
    \/ SummarizeBegin
    \/ DirectRequest
    \/ FinalResponse
    \/ Cleanup
    \/ Report
    \/ HandleException

SpecMain == MainInit /\ [][MainNext]_vars

\* The marker of page k (counted from 1): "[Erro na página k]".
PageMarker(k) ==
    <<"[", "E", "r", "r", "o", " ", "n", "a", " ", "p", "a_acute", "g", "i", "n", "a",
      " ">> \o Decimal(k) \o <<"]">>

\* The parts of the text of the pages d: the text of a page, or its marker
\* when its text cannot be read.
PartsOf(d) == [k \in 1..Len(d) |-> IF d[k].text_fails THEN PageMarker(k) ELSE d[k].text]

\* C21: extract_text over a document of N pages returns exactly N parts
\* joined by line breaks in page order, part k being the text of page k or,
\* when its extraction failed with an error other than MemoryError, the
\* marker naming page k; such a failure does not stop the loop and does not
\* make the call raise (only MemoryError does).
ExtractTextParts ==
    /\ pc = "extract_text_returned" =>
           /\ Len(text_parts) = Len(doc)
           /\ text_parts = PartsOf(doc)
           /\ extracted = JoinLines(text_parts)
    /\ pc = "extract_text_raised" => raised = "MemoryError" /\ memory_error

\* extract_text has returned for a document whose first page failed and
\* whose second page was read.
ExtractTextPartsWitness ==
    /\ pc = "extract_text_returned"
    /\ Len(doc) = 2
    /\ doc[1].text_fails
    /\ ~doc[2].text_fails
    /\ ~memory_error

\* C22: a MemoryError raised while a page is processed during analyze is
\* never recovered: analyze does not return a result after one.
MemoryErrorFatal == pc = "analyze_returned" => ~memory_error

\* The text, and the statistics of the text, of the first n pages of d.
TextOfFirst(d, n) == JoinLines(PartsOf(Take(d, n)))

\* C24: with --max-pages N and a document of more than N pages, the result
\* of the analysis is that of the first N pages: the text, the vocabulary,
\* the most common words and, in text mode, the word count.
MaxPagesLimit ==
    analysis # NoAnalysis /\ args.max_pages > 0 /\ Len(doc) > args.max_pages =>
        LET first == TextOfFirst(doc, args.max_pages)
        IN  /\ analysis.full_text = first
            /\ analysis.vocabulary_size = get_vocabulary_size(first, args.keep_numbers)
            /\ analysis.most_common_words =
                   get_most_common_words(first, args.top_n_words, TRUE, args.keep_numbers)
            /\ args.word_mode = "text" =>
                   analysis.word_count = count_words(first, args.keep_numbers)

\* C30: in every result of analyze, in either word mode and whether or not
\* pages failed in the native word count, vocabulary_size <= word_count and
\* lexical_diversity <= 100 (here in hundredths of a percent).
VocabularyWithinWordCount ==
    analysis # NoAnalysis =>
        /\ analysis.vocabulary_size <= analysis.word_count
        /\ analysis.lexical_diversity <= 100 * 100

\* C23: main returns a non-zero status whenever a fatal error occurred in a
\* step (invalid or missing input, a document that cannot be opened or has no
\* page, memory exhaustion, a failed model load or invocation, a failed write
\* of the report) and 0 only when every enabled step completed.
ExitStatusFatal ==
    pc = "exit" =>
        /\ ( \/ ~args.valid
             \/ args.file # "pdf"
             \/ Len(doc) = 0
             \/ memory_error
             \/ \E j \in 1..Len(calls) : calls[j].result # "ok" ) => exit_status # 0
        /\ exit_status = 0 =>
               /\ analysis # NoAnalysis
               /\ ~args.no_summary => summary # "None"

\* The same without the memory errors: the other fatal errors give a
\* non-zero status and 0 is returned only when every enabled step completed.
ExitStatusFatalOther ==
    pc = "exit" =>
        /\ ( \/ ~args.valid
             \/ args.file # "pdf"
             \/ Len(doc) = 0
             \/ raised = "MemoryError"
             \/ \E j \in 1..Len(calls) : calls[j].result # "ok" ) => exit_status # 0
        /\ exit_status = 0 =>
               /\ analysis # NoAnalysis
               /\ ~args.no_summary => summary # "None"

\* A run with a page whose text could not be read, and no memory error, ends
\* with status 0.
ExitStatusRecoveredWitness ==
    /\ pc = "exit"
    /\ exit_status = 0
    /\ \E k \in 1..Len(doc) : doc[k].text_fails
    /\ ~memory_error

====
